---- MODULE Spec2Model ----
(***************************************************************************)
(* ZeroLink: chunked QR transport (sender QrCodeDisplay, receiver          *)
(* QrScanner).  Strings are TLA+ strings; JSON values are tagged records.  *)
(***************************************************************************)
EXTENDS Integers, Sequences, FiniteSets, TLC

(***************************************************************************)
(* Bounds of the model.                                                    *)
(***************************************************************************)
\* number of encode calls (sessions) whose QR codes are on display
MaxSessions == 3
\* consecutive scans of one part that are followed
MaxConsecutive == 2

\* null for a string-valued and for a number-valued variable
NULL == "<null>"
NONE == -1

(***************************************************************************)
(* JSON values.  A value is a record tagged by t:                          *)
(*   num [n], str [s], bool [b], null, arr [items], obj [fields]           *)
(* where fields is a sequence of <<key, value>> in insertion order.        *)
(***************************************************************************)
JNum(n) == [t |-> "num", n |-> n]
JStr(s) == [t |-> "str", s |-> s]
JBool(b) == [t |-> "bool", b |-> b]
JNull == [t |-> "null"]
JArr(items) == [t |-> "arr", items |-> items]
JObj(fields) == [t |-> "obj", fields |-> fields]
JUndefined == [t |-> "undefined"]

\* property access v[key]; undefined when v is not an object or lacks key
Get(v, key) ==
  IF v.t = "obj" /\ \E i \in 1..Len(v.fields) : v.fields[i][1] = key
  THEN v.fields[CHOOSE i \in 1..Len(v.fields) : v.fields[i][1] = key][2]
  ELSE JUndefined

\* JavaScript truthiness of a value
Truthy(v) ==
  CASE v.t = "num" -> v.n # 0
    [] v.t = "str" -> v.s # ""
    [] v.t = "bool" -> v.b
    [] v.t \in {"null", "undefined"} -> FALSE
    [] OTHER -> TRUE

Digits == <<"0", "1", "2", "3", "4", "5", "6", "7", "8", "9">>

\* decimal rendering of a natural number
RECURSIVE NumStr(_)
NumStr(n) == IF n < 10 THEN Digits[n + 1] ELSE NumStr(n \div 10) \o Digits[(n % 10) + 1]

\* JSON string literal: quotes and backslashes are escaped
\* (the string is split in halves to keep the evaluation shallow)
RECURSIVE Escape(_)
Escape(s) ==
  IF s = "" THEN ""
  ELSE IF Len(s) = 1
       THEN (IF s = "\"" THEN "\\\"" ELSE IF s = "\\" THEN "\\\\" ELSE s)
       ELSE LET h == Len(s) \div 2
            IN Escape(SubSeq(s, 1, h)) \o Escape(SubSeq(s, h + 1, Len(s)))

Quote(s) == "\"" \o Escape(s) \o "\""

\* JSON.stringify
RECURSIVE JSONstringify(_)
RECURSIVE StringifyItems(_)
RECURSIVE StringifyFields(_)
JSONstringify(v) ==
  CASE v.t = "num" -> NumStr(v.n)
    [] v.t = "str" -> Quote(v.s)
    [] v.t = "bool" -> (IF v.b THEN "true" ELSE "false")
    [] v.t = "null" -> "null"
    [] v.t = "arr" -> "[" \o StringifyItems(v.items) \o "]"
    [] v.t = "obj" -> "{" \o StringifyFields(v.fields) \o "}"
StringifyItems(items) ==
  IF items = <<>> THEN ""
  ELSE JSONstringify(Head(items))
       \o (IF Len(items) > 1 THEN "," ELSE "") \o StringifyItems(Tail(items))
StringifyFields(fields) ==
  IF fields = <<>> THEN ""
  ELSE Quote(Head(fields)[1]) \o ":" \o JSONstringify(Head(fields)[2])
       \o (IF Len(fields) > 1 THEN "," ELSE "") \o StringifyFields(Tail(fields))


(***************************************************************************)
(* calculateChecksum: 32-bit wrap-around hash, absolute value, base 36.    *)
(* The 32-bit word is kept as two 16-bit halves so that no intermediate    *)
(* product leaves the range of the model checker's integers.               *)
(***************************************************************************)
AsciiLow == " !\"#$%&'()*+,-./0123456789:;<=>?@ABCDEFGHIJKLMNOPQRSTUVWXYZ[\\]^_"
AsciiHigh == "abcdefghijklmnopqrstuvwxyz{|}~"

\* charCodeAt for printable ASCII (codes 32..95 and 97..126)
CharCode(c) ==
  IF \E i \in 1..Len(AsciiLow) : SubSeq(AsciiLow, i, i) = c
  THEN 31 + (CHOOSE i \in 1..Len(AsciiLow) : SubSeq(AsciiLow, i, i) = c)
  ELSE 96 + (CHOOSE i \in 1..Len(AsciiHigh) : SubSeq(AsciiHigh, i, i) = c)

\* hash = ((hash << 5) - hash) + char; hash = hash & hash
HashStep(h, c) ==
  LET lo1 == h.lo * 31 + c
  IN [lo |-> lo1 % 65536, hi |-> (h.hi * 31 + (lo1 \div 65536)) % 65536]

\* the loop over data[from..to], left to right, starting from hash h.
\* The range is split in halves and the left half is evaluated before the
\* right one is entered, which keeps the evaluation shallow.
RECURSIVE HashFrom(_, _, _, _)
HashFrom(h, s, from, to) ==
  IF from > to THEN h
  ELSE IF from = to THEN HashStep(h, CharCode(SubSeq(s, from, from)))
  ELSE LET left == HashFrom(h, s, from, (from + to) \div 2)
       IN IF left.hi >= 0 THEN HashFrom(left, s, ((from + to) \div 2) + 1, to) ELSE left

Base36Digits == "0123456789abcdefghijklmnopqrstuvwxyz"

RECURSIVE Base36(_)
Base36(n) ==
  IF n < 36 THEN SubSeq(Base36Digits, n + 1, n + 1)
  ELSE Base36(n \div 36) \o SubSeq(Base36Digits, (n % 36) + 1, (n % 36) + 1)

\* Math.abs(hash).toString(36) of the signed 32-bit word <<hi, lo>>
AbsBase36(h) ==
  IF h.hi < 32768 THEN Base36(h.hi * 65536 + h.lo)
  ELSE IF h.hi = 32768 /\ h.lo = 0 THEN "zik0zk"
  ELSE IF h.lo = 0 THEN Base36((65536 - h.hi) * 65536)
  ELSE Base36((65535 - h.hi) * 65536 + (65536 - h.lo))

calculateChecksum(data) == AbsBase36(HashFrom([hi |-> 0, lo |-> 0], data, 1, Len(data)))

(***************************************************************************)
(* Sender: QrCodeDisplay.chunks                                            *)
(***************************************************************************)
CHUNK_SIZE == 250

\* String.prototype.repeat
RECURSIVE Repeat(_, _)
Repeat(c, n) ==
  IF n = 0 THEN ""
  ELSE IF n = 1 THEN c
  ELSE Repeat(c, n \div 2) \o Repeat(c, n - (n \div 2))

QrChunk(sessionId, chunkIndex, total, data, checksum) ==
  JObj(<< <<"sessionId", JStr(sessionId)>>,
          <<"chunkIndex", JNum(chunkIndex)>>,
          <<"totalChunks", JNum(total)>>,
          <<"data", JStr(data)>>,
          <<"checksum", JStr(checksum)>> >>)

sampleChunk == QrChunk(Repeat("a", 36), 99, 99, "", "xxxxxx")
overhead == Len(JSONstringify(sampleChunk))
Max(a, b) == IF a > b THEN a ELSE b
Min(a, b) == IF a < b THEN a ELSE b
effectiveChunkSize == Max(50, CHUNK_SIZE - overhead)

\* a count that rounds down
FloorChunks(logicString) ==
  LET n == Len(logicString) \div effectiveChunkSize
  IN IF n = 0 THEN 1 ELSE n
\* Math.ceil(length / effectiveChunkSize) || 1
numChunks(logicString) ==
  LET n == (Len(logicString) + effectiveChunkSize - 1) \div effectiveChunkSize
  IN IF n = 0 THEN 1 ELSE n

\* a slice that starts one character early
OverlappingContent(logicString, i) ==
  SubSeq(logicString, Max(1, i * effectiveChunkSize),
         Min((i + 1) * effectiveChunkSize, Len(logicString)))
\* logicString.substring(i * size, (i + 1) * size), i counted from 0
ChunkContent(logicString, i) ==
  SubSeq(logicString, i * effectiveChunkSize + 1,
         Min((i + 1) * effectiveChunkSize, Len(logicString)))

\* the chunk objects of one encode call, in emission order
ChunkObjects(logic, sessionId) ==
  LET logicString == JSONstringify(logic)
      n == numChunks(logicString)
  IN [i \in 1..n |->
        LET content == ChunkContent(logicString, i - 1)
        IN QrChunk(sessionId, i, n, content, calculateChecksum(content))]

\* the wire strings of one encode call
chunks(logic, sessionId) ==
  LET objs == ChunkObjects(logic, sessionId)
  IN [i \in 1..Len(objs) |-> JSONstringify(objs[i])]

(***************************************************************************)
(* The documents shown by senders.                                         *)
(***************************************************************************)
Condition(sensor, operator, value) ==
  JObj(<< <<"sensor", JStr(sensor)>>, <<"operator", JStr(operator)>>, <<"value", value>> >>)
LogAction(message) ==
  JObj(<< <<"type", JStr("log")>>,
          <<"payload", JObj(<< <<"message", JStr(message)>> >>)>> >>)
Logic(name, triggers, actions) ==
  JObj(<< <<"name", JStr(name)>>, <<"triggers", triggers>>, <<"actions", actions>> >>)

Hot == Condition("temperature", ">", JNum(30))
\* one chunk, triggers and actions already arrays
DocA == Logic("X", JArr(<<Hot>>), JArr(<<LogAction("hot")>>))
\* one chunk, a bare trigger object and a bare action object
DocBare == Logic("X", Hot, LogAction("hot"))
\* one chunk, a sensor outside the schema's enumeration
DocBad == Logic("B", JArr(<<Condition("humidity", ">", JNum(30))>>), JArr(<<LogAction("hot")>>))
\* three chunks; DocLm and DocLn differ in one character of the last chunk
PadLen == 200
DocLm == Logic("L", JArr(<<Hot>>), JArr(<<LogAction(Repeat("p", PadLen) \o "m")>>))
DocLn == Logic("L", JArr(<<Hot>>), JArr(<<LogAction(Repeat("p", PadLen) \o "n")>>))

Docs == <<DocLm, DocLn, DocBare, DocBad>>

\* crypto.randomUUID(): one fresh 36-character id per encode call
Uuid(i) == "00000000-0000-4000-8000-00000000000" \o Digits[i + 1]
Sessions == 1..MaxSessions
\* the document encoded by the i-th encode call (contents repeat after Len(Docs))
DocOfSession(i) == Docs[((i - 1) % Len(Docs)) + 1]


(***************************************************************************)
(* Frames the camera may decode: the wire strings of every encode call,    *)
(* hand-made chunk objects, bare documents and text that is not JSON.      *)
(***************************************************************************)
DataOf(doc, i) == ChunkContent(JSONstringify(doc), i - 1)
\* chunk 3 of session 1 read with one character changed, checksum untouched
CorruptChunk == QrChunk(Uuid(1), 3, 3, DataOf(DocLn, 3), calculateChecksum(DataOf(DocLm, 3)))
\* a chunk of session 1 that declares totalChunks 1 and carries index 2
OutOfRangeChunk == QrChunk(Uuid(1), 2, 1, JSONstringify(DocA), calculateChecksum(JSONstringify(DocA)))
\* chunk objects no encode call produces
HandMadeChunks == {CorruptChunk, OutOfRangeChunk}

\* <<i, k, chunk object>> for chunk k of encode call i
EncodedTable ==
  UNION {{<<i, k, ChunkObjects(DocOfSession(i), Uuid(i))[k]>> :
            k \in 1..numChunks(JSONstringify(DocOfSession(i)))} : i \in Sessions}
EncodedChunks == {e[3] : e \in EncodedTable}
StandaloneValues == {DocA, DocBad}
\* chunk 1 followed directly by chunk 3 of DocLm or DocLn is again valid JSON
CutLogic(last) ==
  Logic("L", JArr(<<Hot>>), JArr(<<LogAction(Repeat("p", PadLen - effectiveChunkSize) \o last)>>))
\* every JSON value whose text the model can produce
JsonUniverse == EncodedChunks \cup HandMadeChunks \cup StandaloneValues
                  \cup {Docs[i] : i \in 1..Len(Docs)} \cup {CutLogic("m"), CutLogic("n")}
\* the graph of JSON.stringify on the universe: pairs <<text, value>>
TextTable == {<<JSONstringify(v), v>> : v \in JsonUniverse}
TextOf(v) == (CHOOSE p \in TextTable : p[2] = v)[1]
NotJson == "not json"

\* <<i, wire string>> for every wire string of encode call i
SessionFrameTable == {<<e[1], TextOf(e[3])>> : e \in EncodedTable}
SessionFrames(i) == {p[2] : p \in {q \in SessionFrameTable : q[1] = i}}
\* two senders at once, hand-made chunks, bare documents and an unreadable code
MixedFrames == SessionFrames(1) \cup SessionFrames(2)
                 \cup {TextOf(v) : v \in HandMadeChunks \cup StandaloneValues}
                 \cup {NotJson}
AllFrames == {p[2] : p \in SessionFrameTable} \cup MixedFrames

\* JSON.parse: the value whose text is the argument, or a SyntaxError
JSONparse(text) ==
  IF \E p \in TextTable : p[1] = text
  THEN [ok |-> TRUE, value |-> (CHOOSE p \in TextTable : p[1] = text)[2]]
  ELSE [ok |-> FALSE]

(***************************************************************************)
(* Map<number, string>: entries <<key, value>> in insertion order.         *)
(***************************************************************************)
MapHas(m, k) == \E i \in 1..Len(m) : m[i][1] = k
MapSet(m, k, v) ==
  IF MapHas(m, k) THEN [i \in 1..Len(m) |-> IF m[i][1] = k THEN <<k, v>> ELSE m[i]]
  ELSE Append(m, <<k, v>>)
MapKeys(m) == {m[i][1] : i \in 1..Len(m)}

\* the entries in insertion order
UnsortedChunks(m) == m
\* Array.from(entries()).sort((a, b) => a[0] - b[0])
SortedChunks(m) == SortSeq(m, LAMBDA a, b : a[1] < b[1])

\* sortedChunks.map(chunk => chunk[1]).join('')
RECURSIVE JoinData(_)
JoinData(entries) ==
  IF entries = <<>> THEN "" ELSE Head(entries)[2] \o JoinData(Tail(entries))

(***************************************************************************)
(* LogicSchema (zod): unknown keys are allowed, optional keys may be       *)
(* absent.                                                                 *)
(***************************************************************************)
IsStr(v) == v.t = "str"
OneOf(v, names) == v.t = "str" /\ v.s \in names
Optional(v, ok) == v = JUndefined \/ ok

BaseConditionOk(v) ==
  /\ v.t = "obj"
  /\ OneOf(Get(v, "sensor"), {"light", "temperature", "motion", "timeOfDay"})
  /\ OneOf(Get(v, "operator"), {">", "<", "=", "!="})
  /\ Get(v, "value").t \in {"num", "bool", "str"}

RECURSIVE TriggerOk(_)
TriggerOk(v) ==
  \/ BaseConditionOk(v)
  \/ /\ v.t = "obj"
     /\ OneOf(Get(v, "type"), {"all", "any"})
     /\ Get(v, "conditions").t = "arr"
     /\ \A i \in 1..Len(Get(v, "conditions").items) : TriggerOk(Get(v, "conditions").items[i])

PayloadOk(v) ==
  /\ v.t = "obj"
  /\ Optional(Get(v, "message"), IsStr(Get(v, "message")))
  /\ Optional(Get(v, "color"), IsStr(Get(v, "color")))
  /\ Optional(Get(v, "duration"), Get(v, "duration").t = "num")
  /\ Optional(Get(v, "device"), OneOf(Get(v, "device"), {"light", "fan", "pump", "siren"}))
  /\ Optional(Get(v, "state"), OneOf(Get(v, "state"), {"on", "off"}))

ActionOk(v) ==
  /\ v.t = "obj"
  /\ OneOf(Get(v, "type"), {"flashBackground", "vibrate", "log", "toggle"})
  /\ Optional(Get(v, "payload"), PayloadOk(Get(v, "payload")))

\* z.union([TriggerSchema, z.array(TriggerSchema)])
TriggersOk(v) ==
  TriggerOk(v) \/ (v.t = "arr" /\ \A i \in 1..Len(v.items) : TriggerOk(v.items[i]))

\* z.union([ActionSchema, z.array(ActionSchema)])
ActionsOk(v) ==
  ActionOk(v) \/ (v.t = "arr" /\ \A i \in 1..Len(v.items) : ActionOk(v.items[i]))

LogicSchemaOk(v) ==
  /\ v.t = "obj"
  /\ Optional(Get(v, "id"), IsStr(Get(v, "id")))
  /\ IsStr(Get(v, "name"))
  /\ TriggersOk(Get(v, "triggers"))
  /\ ActionsOk(Get(v, "actions"))

\* Array.isArray(x) ? x : [x], for triggers and for actions
AsArray(v) == IF v.t = "arr" THEN v ELSE JArr(<<v>>)
Normalize(logic) ==
  JObj([i \in 1..Len(logic.fields) |->
          IF logic.fields[i][1] \in {"triggers", "actions"}
          THEN <<logic.fields[i][1], AsArray(logic.fields[i][2])>>
          ELSE logic.fields[i]])

(***************************************************************************)
(* Receiver: the QrScanner component.                                      *)
(*                                                                         *)
(* handleScanSuccess is handed to Html5Qrcode.start() once, by startScan.  *)
(* The scanner keeps calling that one function object, so the handler sees *)
(* scanSessionId, totalChunks and scannedChunks of the render in which     *)
(* Start was clicked (hSessionId, hTotalChunks, hChunks), not the current  *)
(* component state.  scannedChunks.set() mutates that captured Map.        *)
(***************************************************************************)
VARIABLES
  cameraState,        \* useState<CameraState>
  scanSessionId,      \* useState<string | null>
  scannedChunks,      \* useState<Map<number, string>>
  totalChunks,        \* useState<number | null>
  lastScannedPart,    \* useRef
  consecutiveScans,   \* useRef
  scanner,            \* Html5Qrcode: NOT_STARTED, SCANNING or STOPPING
  pendingStop,        \* the stopScan call awaiting scanner.stop(): none, success, cancel
  starting,           \* a startScan call is between its click and its outcome
  inFlight,           \* a decode was in progress when stop() was called
  pendingHandler,     \* the handler handed to start() while it is starting
  hSessionId,         \* scanSessionId as seen by the registered handler (if any)
  hTotalChunks,       \* totalChunks as seen by the registered handler (if any)
  hChunks,            \* the Map object the registered handler holds (if any)
  toasts,             \* titles of the toasts raised by the last step
  emitted,            \* values handed to onScanSuccess by the running scanner
  origin,             \* history: for each key of hChunks, who stored it
  sOrigin,            \* history: the same for scannedChunks
  emittedOrigin,      \* history: for each emitted value, what it was built from
  source,             \* what the camera is shown: 0 MixedFrames, i the codes of encode call i
  encLogic,           \* QrCodeDisplay: the logic prop (JNull while not mounted)
  encSessionId,       \* QrCodeDisplay: sessionId memo
  encChunks,          \* QrCodeDisplay: chunks memo, each with the object it was made from
  csChunk,            \* data and checksum of a chunk as built by the sender (empty: none yet)
  csRead,             \* that data as read back, at most one character changed
  runner,             \* useLogicRunner: unmounted, mounted or failed (an effect threw)
  deviceHandler,      \* whether the caller passed onDeviceStateChange
  activeLogic,        \* the hook's logic argument (JNull: none loaded)
  sensorData,         \* the hook's sensorData argument
  clock,              \* Date.now()
  lastTriggerTime,    \* useRef<number>(0)
  fired,              \* the actions handed to triggerAction by the last evaluation pass
  firedAt,            \* history: the times of the last two passes that fired an action
  eventLog,           \* useState<EventLogEntry[]>: entries [id, message], newest first
  entryCount,         \* the entries made so far; the next one gets id entryCount + 1
  clearedAt,          \* history: entryCount when the log was last cleared
  deviceStates,       \* the receiver view's useState<DeviceStates>
  evTrigger,          \* evaluateTrigger: the trigger it was last called with (JNull: none)
  evSensors,          \* evaluateTrigger: the sensorData of that call
  evNow,              \* the time of that call, in ms
  evResult,           \* what the call gave: true, false or throw (none: no call yet)
  rotVariant,         \* gemini-key-rotator.ts: which of its two versions is loaded (0: none)
  envKeys,            \* the number of unique GEMINI_API_KEY values in process.env
  apiKeys,            \* let apiKeys: string[]
  keyStates,          \* let keyStates: Map<string, KeyState>
  currentKeyIndex,    \* let currentKeyIndex
  cache,              \* the LRUCache: entries [key, data, until]
  rotNow,             \* Date.now() of the server, in ms
  calls               \* the generateWithFallback calls: where each is and its locals

decoderVars == <<cameraState, scanSessionId, scannedChunks, totalChunks, lastScannedPart,
                 consecutiveScans, scanner, pendingStop, starting, inFlight, pendingHandler,
                 hSessionId, hTotalChunks, hChunks, toasts, emitted, origin, sOrigin,
                 emittedOrigin, source>>
encoderVars == <<encLogic, encSessionId, encChunks>>
checksumVars == <<csChunk, csRead>>
logVars == <<eventLog, entryCount, clearedAt>>
runnerVars == <<runner, deviceHandler, activeLogic, sensorData, clock, lastTriggerTime,
                fired, firedAt, logVars, deviceStates>>
evalVars == <<evTrigger, evSensors, evNow, evResult>>
rotatorVars == <<rotVariant, envKeys, apiKeys, keyStates, currentKeyIndex, cache, rotNow,
                 calls>>
vars == <<decoderVars, encoderVars, checksumVars, runnerVars, evalVars, rotatorVars>>
\* what a step of the receiver leaves alone
notDecoder == <<encoderVars, checksumVars, runnerVars, evalVars, rotatorVars>>
\* what a step of the sender, of the checksum, of the rule engine leaves alone
notEncoder == <<decoderVars, checksumVars, runnerVars, evalVars, rotatorVars>>
notChecksum == <<decoderVars, encoderVars, runnerVars, evalVars, rotatorVars>>
notRunner == <<decoderVars, encoderVars, checksumVars, evalVars, rotatorVars>>
\* what a call of evaluateTrigger leaves alone
notEval == <<decoderVars, encoderVars, checksumVars, runnerVars, rotatorVars>>
\* what a step of the key rotator leaves alone
notRotator == <<decoderVars, encoderVars, checksumVars, runnerVars, evalVars>>

\* Date.now() when the page is opened, in ms; every value of at least 2000
\* gives the same first pass
StartTime == 10000
\* useState<SensorData>({ light: 50, temperature: 20, motion: false })
InitialSensorData ==
  [light |-> JNum(50), temperature |-> JNum(20), motion |-> JBool(FALSE)]

\* generateWithFallback calls that run at the same time
MaxCalls == 2
\* no key and no result yet
NoKey == 0
NoResult == [success |-> FALSE, status |-> 0, data |-> ""]
\* a call that has not been made
IdleCall ==
  [pc |-> "idle", prompt |-> "", attempts |-> 0, apiKey |-> NoKey, result |-> NoResult]

\* useState<DeviceStates>({ fan: false, light: false, pump: false, siren: false })
InitialDeviceStates == [fan |-> FALSE, light |-> FALSE, pump |-> FALSE, siren |-> FALSE]

EmptyMap == <<>>
NoOrigin == <<>>
\* history of a value emitted without assembly
Direct == [total |-> NONE, from |-> NoOrigin]
NoHandler == [scanSessionId |-> NULL, totalChunks |-> NONE,
              scannedChunks |-> EmptyMap, origin |-> NoOrigin]

\* history bookkeeping at a reset: the entries stored before it become stale
Aged(o) == [k \in DOMAIN o |-> [o[k] EXCEPT !.stale = TRUE]]

\* the component state, as a record
State == [scanSessionId |-> scanSessionId, scannedChunks |-> scannedChunks,
          totalChunks |-> totalChunks, lastScannedPart |-> lastScannedPart,
          consecutiveScans |-> consecutiveScans, sOrigin |-> sOrigin]

\* a reset that forgets to replace the Map
ResetKeepingChunks(st) ==
  [st EXCEPT !.scanSessionId = NULL, !.totalChunks = NONE,
             !.lastScannedPart = NONE, !.consecutiveScans = 0]
resetScanState(st) ==
  [st EXCEPT !.scanSessionId = NULL, !.scannedChunks = EmptyMap, !.totalChunks = NONE,
             !.lastScannedPart = NONE, !.consecutiveScans = 0, !.sOrigin = NoOrigin]

\* parsed.sessionId && parsed.chunkIndex !== undefined && parsed.totalChunks && parsed.data
IsStructuredChunk(parsed) ==
  /\ Truthy(Get(parsed, "sessionId"))
  /\ Get(parsed, "chunkIndex") # JUndefined
  /\ Truthy(Get(parsed, "totalChunks"))
  /\ Truthy(Get(parsed, "data"))

\* scannedChunks.size < totalChunks! with the handler's totalChunks (null is 0)
SizeBelowTotal(size, total) == IF total = NONE THEN size < 0 ELSE size < total

(***************************************************************************)
(* handleScanSuccess(decodedText): what the handler does to the component  *)
(* state st, to its own Map and to the outside.  The result records        *)
(*   st, hChunks, origin : the new values                                  *)
(*   mapSet   : setScannedChunks was called                                *)
(*   toasts   : toasts raised                                              *)
(*   emit     : values handed to onScanSuccess                             *)
(*   emitFrom : history, for each of them totalChunks and the chunks it    *)
(*              was built from                                             *)
(*   stop     : stopScan(true) was called: no, direct (by the handler) or  *)
(*              effect (by processAndFinalize, after the render)           *)
(***************************************************************************)
\* a handler that gives up the session on a frame it cannot read
AbortSession(st) ==
  [st |-> resetScanState(st), hChunks |-> hChunks, origin |-> origin, mapSet |-> FALSE,
   toasts |-> {"Assembly Error"}, emit |-> <<>>, emitFrom |-> <<>>, stop |-> "no"]
Untouched(st) ==
  [st |-> st, hChunks |-> hChunks, origin |-> origin, mapSet |-> FALSE,
   toasts |-> {}, emit |-> <<>>, emitFrom |-> <<>>, stop |-> "no"]

StoreChunk(st, parsed, isFirst) ==
  LET sid == Get(parsed, "sessionId").s
      idx == Get(parsed, "chunkIndex").n
      total == Get(parsed, "totalChunks").n
      data == Get(parsed, "data").s
      st1 == IF isFirst THEN [st EXCEPT !.scanSessionId = sid, !.totalChunks = total] ELSE st
      fresh == ~MapHas(hChunks, idx)
      map1 == IF fresh THEN MapSet(hChunks, idx, data) ELSE hChunks
      org1 == IF fresh THEN (idx :> [sid |-> sid, stale |-> FALSE]) @@ origin ELSE origin
      st2 == IF fresh THEN [st1 EXCEPT !.scannedChunks = map1, !.sOrigin = org1] ELSE st1
      repeat == st.lastScannedPart = idx
      count == IF repeat THEN st.consecutiveScans + 1 ELSE 1
      still == repeat /\ count >= 3 /\ SizeBelowTotal(Len(map1), hTotalChunks)
      st3 == [st2 EXCEPT !.lastScannedPart = idx,
                         !.consecutiveScans = IF still THEN 0 ELSE count]
  IN [st |-> st3, hChunks |-> map1, origin |-> org1, mapSet |-> fresh,
      toasts |-> (IF isFirst THEN {"Multipart"} ELSE {})
                   \cup (IF still THEN {"Still scanning..."} ELSE {}),
      emit |-> <<>>, emitFrom |-> <<>>, stop |-> "no"]

\* a handler without the fallback: what is no structured chunk is ignored
ChunksOnly(st, p) ==
  IF p.ok /\ p.value # JNull /\ IsStructuredChunk(p.value) THEN
    IF hSessionId = NULL THEN StoreChunk(st, p.value, TRUE)
    ELSE IF hSessionId # Get(p.value, "sessionId").s
      THEN [Untouched(st) EXCEPT !.toasts = {"Scan Mismatch"}]
    ELSE StoreChunk(st, p.value, FALSE)
  ELSE Untouched(st)
\* the handler once JSON.parse(decodedText) has returned or thrown (p)
HandleParsed(st, p) ==
  IF ~p.ok THEN Untouched(st)                          \* both JSON.parse calls throw
  ELSE IF p.value = JNull                              \* property access throws, retry
    THEN [Untouched(st) EXCEPT !.emit = <<p.value>>, !.emitFrom = <<Direct>>, !.stop = "direct"]
  ELSE IF IsStructuredChunk(p.value)
    THEN IF hSessionId = NULL THEN StoreChunk(st, p.value, TRUE)
         ELSE IF hSessionId # Get(p.value, "sessionId").s
           THEN [Untouched(st) EXCEPT !.toasts = {"Scan Mismatch"}]
         ELSE StoreChunk(st, p.value, FALSE)
  ELSE [Untouched(st) EXCEPT !.emit = <<p.value>>, !.emitFrom = <<Direct>>, !.stop = "direct"]

handleScanSuccess(st, decodedText) == HandleParsed(st, JSONparse(decodedText))

(***************************************************************************)
(* processAndFinalize, run by the effect on [scannedChunks, totalChunks]   *)
(***************************************************************************)
\* the try block once JSON.parse(fullString) has returned or thrown (p)
FinalizeParsed(r, p) ==
  IF p.ok
  THEN [r EXCEPT !.emit = Append(@, p.value), !.stop = "effect",
                 !.emitFrom = Append(@, [total |-> r.st.totalChunks, from |-> r.st.sOrigin])]
  ELSE [r EXCEPT !.toasts = @ \cup {"Assembly Error"},
                 !.st = resetScanState(@), !.origin = Aged(@)]

processAndFinalize(r) ==
  IF r.st.totalChunks = NONE \/ r.st.totalChunks = 0
       \/ Len(r.st.scannedChunks) # r.st.totalChunks
  THEN [r EXCEPT !.toasts = @ \cup {"Incomplete Scan"}]
  ELSE FinalizeParsed(r, JSONparse(JoinData(SortedChunks(r.st.scannedChunks))))

\* an effect without its dependency list: it runs after every render
EffectEveryRender(old, r) ==
  IF r.st.totalChunks # NONE /\ r.st.totalChunks # 0
       /\ Len(r.st.scannedChunks) = r.st.totalChunks
  THEN processAndFinalize(r)
  ELSE r
\* useEffect(() => { if (totalChunks && size === totalChunks) processAndFinalize() })
RunEffect(old, r) ==
  IF (r.mapSet \/ r.st.totalChunks # old.totalChunks)
       /\ r.st.totalChunks # NONE /\ r.st.totalChunks # 0
       /\ Len(r.st.scannedChunks) = r.st.totalChunks
  THEN processAndFinalize(r)
  ELSE r

SetState(st) ==
  /\ scanSessionId' = st.scanSessionId
  /\ scannedChunks' = st.scannedChunks
  /\ totalChunks' = st.totalChunks
  /\ lastScannedPart' = st.lastScannedPart
  /\ consecutiveScans' = st.consecutiveScans
  /\ sOrigin' = st.sOrigin

\* the frames the camera can be shown
Frames == IF source = 0 THEN MixedFrames ELSE SessionFrames(source)

(***************************************************************************)
(* startScan, up to the first await / the unsupported return               *)
(***************************************************************************)
StartScan ==
  /\ cameraState \in {"idle", "denied", "error", "unsupported"}
  /\ ~starting
  /\ pendingHandler' = [scanSessionId |-> scanSessionId, totalChunks |-> totalChunks,
                        scannedChunks |-> scannedChunks, origin |-> sOrigin]
  /\ SetState(resetScanState(State))
  /\ origin' = Aged(origin)
  /\ \E supported \in BOOLEAN :
       /\ cameraState' = IF supported THEN "loading" ELSE "unsupported"
       /\ starting' = supported
  /\ toasts' = {}
  /\ emitted' = <<>>
  /\ emittedOrigin' = <<>>
  /\ UNCHANGED <<scanner, pendingStop, inFlight, hSessionId, hTotalChunks, hChunks, source>>
  /\ UNCHANGED notDecoder

(***************************************************************************)
(* startScan, after its awaits: permission denied, start() failed, or the  *)
(* scanner runs with this call's handleScanSuccess                         *)
(***************************************************************************)
StartScanResolve ==
  /\ starting
  /\ starting' = FALSE
  /\ \E outcome \in {"denied", "error", "streaming"} :
       /\ outcome = "streaming" => scanner = "NOT_STARTED"
       /\ cameraState' = outcome
       /\ IF outcome = "streaming"
          THEN /\ scanner' = "SCANNING"
               /\ hSessionId' = pendingHandler.scanSessionId
               /\ hTotalChunks' = pendingHandler.totalChunks
               /\ hChunks' = pendingHandler.scannedChunks
               /\ origin' = pendingHandler.origin
               /\ inFlight' = FALSE
          ELSE UNCHANGED <<scanner, hSessionId, hTotalChunks, hChunks, origin, inFlight>>
  /\ toasts' = {}
  /\ pendingHandler' = NoHandler
  /\ UNCHANGED <<scanSessionId, scannedChunks, totalChunks, lastScannedPart,
                 consecutiveScans, sOrigin, pendingStop, emitted, emittedOrigin, source>>
  /\ UNCHANGED notDecoder

(***************************************************************************)
(* One decode callback: handleScanSuccess, the render it causes and the    *)
(* effect of that render, then stopScan(true) up to its await.             *)
(***************************************************************************)
Scan(decodedText) ==
  /\ decodedText \in Frames
  /\ scanner = "SCANNING" \/ (scanner = "STOPPING" /\ inFlight)
  /\ \E r \in {RunEffect(State, handleScanSuccess(State, decodedText))} :
     LET late == scanner = "STOPPING"
         \* a decode can be in progress when the effect calls stop(), not when
         \* the handler itself does
         left == ~late /\ r.stop = "effect"
         last == (late \/ r.stop # "no") /\ ~left  \* the handler is never called again
     IN /\ inFlight' = left
        /\ hChunks' = IF last THEN EmptyMap ELSE r.hChunks
        /\ emitted' = emitted \o r.emit
        /\ emittedOrigin' = emittedOrigin \o r.emitFrom
        /\ toasts' = r.toasts
        /\ r.st.consecutiveScans <= MaxConsecutive
        /\ IF r.stop # "no" /\ ~late
           THEN \* scanner.stop() starts; the rest of stopScan runs in StopFinish
                /\ SetState(r.st)
                /\ origin' = IF last THEN NoOrigin ELSE r.origin
                /\ scanner' = "STOPPING"
                /\ pendingStop' = "success"
                /\ UNCHANGED cameraState
           ELSE IF r.stop # "no"
           THEN \* scanner.stop() throws while stopping: stopScan runs to its end
                /\ SetState(resetScanState(r.st))
                /\ origin' = IF last THEN NoOrigin ELSE Aged(r.origin)
                /\ cameraState' = "idle"
                /\ UNCHANGED <<scanner, pendingStop>>
           ELSE /\ SetState(r.st)
                /\ origin' = IF last THEN NoOrigin ELSE r.origin
                /\ UNCHANGED <<cameraState, scanner, pendingStop>>
  /\ UNCHANGED <<starting, pendingHandler, hSessionId, hTotalChunks, source>>
  /\ UNCHANGED notDecoder

(***************************************************************************)
(* The Reset Progress button: resetScanState                               *)
(***************************************************************************)
ResetProgress ==
  /\ totalChunks # NONE /\ totalChunks # 0
  /\ cameraState = "streaming"
  /\ SetState(resetScanState(State))
  /\ origin' = Aged(origin)
  /\ toasts' = {}
  /\ UNCHANGED <<cameraState, scanner, pendingStop, starting, inFlight, pendingHandler,
                 hSessionId, hTotalChunks, hChunks, emitted, emittedOrigin, source>>
  /\ UNCHANGED notDecoder

(***************************************************************************)
(* The Stop Scanning button: stopScan(false) up to its await               *)
(***************************************************************************)
StopScanClick ==
  /\ cameraState = "streaming"
  /\ IF scanner = "SCANNING"
     THEN /\ scanner' = "STOPPING"
          /\ pendingStop' = "cancel"
          /\ inFlight' = TRUE
          /\ toasts' = {}
          /\ UNCHANGED <<cameraState, scanSessionId, scannedChunks, totalChunks,
                         lastScannedPart, consecutiveScans, sOrigin, origin, hChunks>>
     ELSE /\ cameraState' = "idle"
          /\ toasts' = IF scanner = "STOPPING" THEN {"Scan Stopped"} ELSE {}
          /\ SetState(resetScanState(State))
          /\ origin' = Aged(origin)
          /\ UNCHANGED <<scanner, pendingStop, inFlight, hChunks>>
  /\ UNCHANGED <<starting, pendingHandler, hSessionId, hTotalChunks,
                 emitted, emittedOrigin, source>>
  /\ UNCHANGED notDecoder

(***************************************************************************)
(* stopScan after scanner.stop() has resolved                              *)
(***************************************************************************)
StopFinish ==
  /\ pendingStop # "none"
  /\ scanner' = "NOT_STARTED"
  /\ pendingStop' = "none"
  /\ inFlight' = FALSE
  /\ cameraState' = "idle"
  /\ toasts' = IF pendingStop = "cancel" THEN {"Scan Stopped"} ELSE {}
  /\ SetState(resetScanState(State))
  /\ hSessionId' = NULL
  /\ hTotalChunks' = NONE
  /\ hChunks' = EmptyMap
  /\ origin' = NoOrigin
  /\ emitted' = <<>>
  /\ emittedOrigin' = <<>>
  /\ UNCHANGED <<starting, pendingHandler, source>>
  /\ UNCHANGED notDecoder

Init ==
  /\ cameraState = "idle"
  /\ scanSessionId = NULL
  /\ scannedChunks = EmptyMap
  /\ totalChunks = NONE
  /\ lastScannedPart = NONE
  /\ consecutiveScans = 0
  /\ scanner = "NOT_STARTED"
  /\ pendingStop = "none"
  /\ starting = FALSE
  /\ inFlight = FALSE
  /\ pendingHandler = NoHandler
  /\ hSessionId = NULL
  /\ hTotalChunks = NONE
  /\ hChunks = EmptyMap
  /\ toasts = {}
  /\ emitted = <<>>
  /\ origin = NoOrigin
  /\ sOrigin = NoOrigin
  /\ emittedOrigin = <<>>
  /\ source \in 0..MaxSessions
  /\ encLogic = JNull
  /\ encSessionId = NULL
  /\ encChunks = <<>>
  /\ csChunk = [data |-> "", checksum |-> ""]
  /\ csRead = ""
  /\ runner = "unmounted"
  /\ deviceHandler = FALSE
  /\ activeLogic = JNull
  /\ sensorData = InitialSensorData
  /\ clock = StartTime
  /\ lastTriggerTime = 0
  /\ fired = <<>>
  /\ firedAt = <<>>
  /\ eventLog = <<>>
  /\ entryCount = 0
  /\ clearedAt = 0
  /\ deviceStates = InitialDeviceStates
  /\ evTrigger = JNull
  /\ evSensors = InitialSensorData
  /\ evNow = 0
  /\ evResult = "none"
  /\ rotVariant = 0
  /\ envKeys = 0
  /\ apiKeys = <<>>
  /\ keyStates = <<>>
  /\ currentKeyIndex = 0
  /\ cache = {}
  /\ rotNow = 0
  /\ calls = [c \in 1..MaxCalls |-> IdleCall]

\* the initial state with the receiver's camera on the mixed codes
InitMixed == Init /\ source = 0

Next ==
  \/ StartScan
  \/ StartScanResolve
  \/ \E decodedText \in AllFrames : Scan(decodedText)
  \/ ResetProgress
  \/ StopScanClick
  \/ StopFinish

Spec == Init /\ [][Next]_vars

\* The continuations of startScan and stopScan run once their promises settle;
\* button clicks and decoded frames are up to the user and the camera.
FairSpec == Spec /\ WF_vars(StartScanResolve) /\ WF_vars(StopFinish)

(***************************************************************************)
(* Sender: QrCodeDisplay is rendered with a logic prop; sessionId and      *)
(* chunks are memos of it.                                                 *)
(***************************************************************************)
\* message lengths tried on each side of the one-chunk and two-chunk limits
MaxEncPad == 16

\* the logic props: messages of every length around the limits, a message
\* with characters that JSON escapes, and the documents of the receiver model
EncDocs ==
  {Logic("L", JArr(<<Hot>>), JArr(<<LogAction(Repeat("p", n))>>)) :
     n \in (0..MaxEncPad) \cup (effectiveChunkSize..(effectiveChunkSize + MaxEncPad))}
    \cup {Logic("E", JArr(<<Hot>>), JArr(<<LogAction("say \"hi\" \\ bye")>>))}
    \cup {Docs[i] : i \in 1..Len(Docs)}

\* the chunks memo for every logic prop and sessionId, each wire string with
\* the chunk object it was made from
EncodeTable ==
  [doc \in EncDocs |->
     [i \in Sessions |->
        [k \in 1..numChunks(JSONstringify(doc)) |->
           [chunk |-> ChunkObjects(doc, Uuid(i))[k], text |-> chunks(doc, Uuid(i))[k]]]]]

\* a render with a new logic prop: a fresh sessionId, the chunks recomputed
Encode(doc, i) ==
  /\ Uuid(i) # encSessionId
  /\ encLogic' = doc
  /\ encSessionId' = Uuid(i)
  /\ encChunks' = EncodeTable[doc][i]
  /\ UNCHANGED notEncoder

EncNext == \E doc \in EncDocs, i \in Sessions : Encode(doc, i)

EncSpec == InitMixed /\ [][EncNext]_vars

(***************************************************************************)
(* calculateChecksum on a chunk's data, and on the same data with one      *)
(* character replaced.                                                     *)
(***************************************************************************)
\* the data of a one-chunk document and a short string
ChecksumInputs ==
  {JSONstringify(Logic("L", JArr(<<Hot>>), JArr(<<LogAction("qurjdyy")>>))), "hot"}
\* the characters put in place of one character of the data
AlterChars == {"a", "z"}

\* data: content, checksum: calculateChecksum(content)
TakeData(content) ==
  /\ csChunk.data = ""
  /\ csChunk' = [data |-> content, checksum |-> calculateChecksum(content)]
  /\ csRead' = content
  /\ UNCHANGED notChecksum

\* the data is read back with the character at pos replaced by c
AlterChar(pos, c) ==
  /\ csChunk.data # ""
  /\ csRead = csChunk.data
  /\ c # SubSeq(csRead, pos, pos)
  /\ csRead' = SubSeq(csRead, 1, pos - 1) \o c \o SubSeq(csRead, pos + 1, Len(csRead))
  /\ UNCHANGED <<csChunk, notChecksum>>

ChecksumNext ==
  \/ \E content \in ChecksumInputs : TakeData(content)
  \/ \E c \in AlterChars :
       \E pos \in 1..Len(csChunk.data) : AlterChar(pos, c)

ChecksumSpec == InitMixed /\ [][ChecksumNext]_vars

(***************************************************************************)
(* The rule engine: one useLogicRunner hook from its mount on.  An         *)
(* evaluation pass is one run of the hook's effect; React runs it after a  *)
(* render in which logic, sensorData or triggerAction changed, and takes   *)
(* the component off the page when the effect throws.                      *)
(***************************************************************************)
\* the debounce window of the effect, in ms
DebounceMs == 2000
\* how far the clock runs past StartTime
MaxElapsed == 2500
\* the times that pass between two renders, in ms
Advances == {500, 1499}

\* a JavaScript number: an integer or NaN
NaN == [nan |-> TRUE, n |-> 0]
Num(n) == [nan |-> FALSE, n |-> n]
\* the digit a character stands for, NONE for any other character
DigitOf(c) ==
  IF \E d \in 1..10 : Digits[d] = c THEN (CHOOSE d \in 1..10 : Digits[d] = c) - 1 ELSE NONE
AllDigits(s) == s # "" /\ \A i \in 1..Len(s) : DigitOf(SubSeq(s, i, i)) # NONE
RECURSIVE DigitsValue(_)
DigitsValue(s) ==
  IF s = "" THEN 0
  ELSE 10 * DigitsValue(SubSeq(s, 1, Len(s) - 1)) + DigitOf(SubSeq(s, Len(s), Len(s)))
\* a conversion that reads every string as 0
EveryStringZero(s) == Num(0)
\* Number(s) for the empty string, decimal integers and strings that are no
\* number
StringToNumber(s) ==
  IF s = "" THEN Num(0)
  ELSE IF AllDigits(s) THEN Num(DigitsValue(s))
  ELSE IF SubSeq(s, 1, 1) = "-" /\ AllDigits(SubSeq(s, 2, Len(s)))
       THEN Num(0 - DigitsValue(SubSeq(s, 2, Len(s))))
  ELSE NaN
\* the conversion the operators > and < apply to an operand
ToNumber(v) ==
  CASE v.t = "num" -> Num(v.n)
    [] v.t = "bool" -> Num(IF v.b THEN 1 ELSE 0)
    [] v.t = "null" -> Num(0)
    [] v.t = "str" -> StringToNumber(v.s)
    [] OTHER -> NaN
\* a < b on strings: by character code, a prefix first
RECURSIVE StrLess(_, _)
StrLess(a, b) ==
  IF b = "" THEN FALSE
  ELSE IF a = "" THEN TRUE
  ELSE IF SubSeq(a, 1, 1) = SubSeq(b, 1, 1)
       THEN StrLess(SubSeq(a, 2, Len(a)), SubSeq(b, 2, Len(b)))
  ELSE CharCode(SubSeq(a, 1, 1)) < CharCode(SubSeq(b, 1, 1))
\* a < b; a > b is Less(b, a)
Less(a, b) ==
  IF a.t = "str" /\ b.t = "str" THEN StrLess(a.s, b.s)
  ELSE LET x == ToNumber(a)
           y == ToNumber(b)
       IN ~x.nan /\ ~y.nan /\ x.n < y.n

\* String(v)
RECURSIVE String(_)
String(v) ==
  CASE v.t = "num" -> IF v.n < 0 THEN "-" \o NumStr(0 - v.n) ELSE NumStr(v.n)
    [] v.t = "str" -> v.s
    [] v.t = "bool" -> IF v.b THEN "true" ELSE "false"
    [] v.t = "null" -> "null"
    [] v.t = "undefined" -> "undefined"
    [] v.t = "arr" ->
         IF v.items = <<>> THEN ""
         ELSE LET item(i) == IF v.items[i].t \in {"null", "undefined"} THEN ""
                             ELSE String(v.items[i])
                  rest == JArr(SubSeq(v.items, 1, Len(v.items) - 1))
              IN IF Len(v.items) = 1 THEN item(1)
                 ELSE String(rest) \o "," \o item(Len(v.items))
    [] OTHER -> "[object Object]"
UpperCase == "ABCDEFGHIJKLMNOPQRSTUVWXYZ"
LowerCase == "abcdefghijklmnopqrstuvwxyz"
LowerChar(c) ==
  IF \E i \in 1..26 : SubSeq(UpperCase, i, i) = c
  THEN LET i == CHOOSE i \in 1..26 : SubSeq(UpperCase, i, i) = c IN SubSeq(LowerCase, i, i)
  ELSE c
RECURSIVE toLowerCase(_)
toLowerCase(s) ==
  IF s = "" THEN "" ELSE LowerChar(SubSeq(s, 1, 1)) \o toLowerCase(SubSeq(s, 2, Len(s)))

\* new Date().getHours() at time now, for a device whose local time is UTC
getHours(now) == (now \div 3600000) % 24
getTimeOfDay(now) ==
  LET hour == getHours(now) IN IF hour > 6 /\ hour < 19 THEN "day" ELSE "night"

\* sensorData[condition.sensor]
SensorValue(sd, sensor) ==
  IF sensor.t = "str" /\ sensor.s \in DOMAIN sd THEN sd[sensor.s] ELSE JUndefined

checkCondition(condition, sd, now) ==
  LET sensor == Get(condition, "sensor")
      operator == Get(condition, "operator")
      value == Get(condition, "value")
  IN IF sensor = JStr("timeOfDay")
     THEN CASE operator = JStr("=") -> JStr(getTimeOfDay(now)) = value
            [] operator = JStr("!=") -> JStr(getTimeOfDay(now)) # value
            [] OTHER -> FALSE
     ELSE LET sensorValue == SensorValue(sd, sensor)
          IN CASE operator = JStr(">") -> Less(value, sensorValue)
               [] operator = JStr("<") -> Less(sensorValue, value)
               [] operator = JStr("=") ->
                    toLowerCase(String(sensorValue)) = toLowerCase(String(value))
               [] operator = JStr("!=") ->
                    toLowerCase(String(sensorValue)) # toLowerCase(String(value))
               [] OTHER -> FALSE

\* 'sensor' in trigger, for an object or an array
HasSensor(trigger) ==
  trigger.t = "obj" /\ \E i \in 1..Len(trigger.fields) : trigger.fields[i][1] = "sensor"

\* evaluateTrigger: "true", "false", or "throw" when the call raises a
\* TypeError ('sensor' in a primitive, conditions that is no array)
RECURSIVE evaluateTrigger(_, _, _), Every(_, _, _, _), Some(_, _, _, _)
evaluateTrigger(trigger, sd, now) ==
  IF trigger.t \notin {"obj", "arr"} THEN "throw"
  ELSE IF HasSensor(trigger)
       THEN IF checkCondition(trigger, sd, now) THEN "true" ELSE "false"
  ELSE IF Get(trigger, "conditions").t # "arr" THEN "throw"
  ELSE IF Get(trigger, "type") = JStr("all")
       THEN Every(Get(trigger, "conditions").items, sd, now, 1)
  ELSE Some(Get(trigger, "conditions").items, sd, now, 1)
\* conditions.every(...) from index i on: the first child that is not true
\* ends it
Every(items, sd, now, i) ==
  IF i > Len(items) THEN "true"
  ELSE LET r == evaluateTrigger(items[i], sd, now)
       IN IF r = "true" THEN Every(items, sd, now, i + 1) ELSE r
\* a some() that looks at one child only
FirstOnly(items, sd, now, i) ==
  IF i > Len(items) THEN "false" ELSE evaluateTrigger(items[i], sd, now)
\* conditions.some(...) from index i on: the first child that is not false
\* ends it
Some(items, sd, now, i) ==
  IF i > Len(items) THEN "false"
  ELSE LET r == evaluateTrigger(items[i], sd, now)
       IN IF r = "false" THEN Some(items, sd, now, i + 1) ELSE r

\* whether triggerAction(action) raises: color?.toLowerCase() on a color
\* that is no string, onDeviceStateChange(...) when the caller passed none
triggerActionThrows(action, handler) ==
  LET type == Get(action, "type")
      payload == Get(action, "payload")
  IN \/ /\ type = JStr("flashBackground")
        /\ Get(payload, "color").t \notin {"null", "undefined", "str"}
     \/ /\ type = JStr("toggle")
        /\ Truthy(Get(payload, "device"))
        /\ Truthy(Get(payload, "state"))
        /\ ~handler

\* `Action '${action.type}' triggered by '${logicName}'`
defaultMessage(action, logicName) ==
  "Action '" \o String(Get(action, "type")) \o "' triggered by '" \o String(logicName) \o "'"
\* action.payload?.message || defaultMessage
MessageOf(action, logicName) ==
  IF Truthy(Get(Get(action, "payload"), "message"))
  THEN String(Get(Get(action, "payload"), "message"))
  ELSE defaultMessage(action, logicName)
\* the entry of a toggle that was handed on; the icon in front of a message
\* is written as a tag in brackets
ToggleMessage(device, on) ==
  (IF on THEN "[on] " ELSE "[off] ") \o "Device '" \o String(device) \o "' was turned "
    \o (IF on THEN "ON" ELSE "OFF") \o "."
InvalidToggle == "[warn] Invalid toggle action received."
Vibrating == "[vibrate] Device is vibrating..."

\* triggerAction(action, logicName): the messages it hands to addLogEntry, in
\* order, the device changes it hands to onDeviceStateChange, and whether it
\* raises; what was logged before the exception stays logged
triggerAction(action, logicName, handler) ==
  LET type == Get(action, "type")
      device == Get(Get(action, "payload"), "device")
      state == Get(Get(action, "payload"), "state")
      message == MessageOf(action, logicName)
      threw == triggerActionThrows(action, handler)
      quiet == [log |-> <<>>, devices |-> <<>>, threw |-> threw]
  IN CASE type = JStr("toggle") ->
            IF threw THEN quiet
            ELSE IF Truthy(device) /\ Truthy(state)
                 THEN [quiet EXCEPT
                         !.log = <<ToggleMessage(device, state = JStr("on"))>>,
                         !.devices = <<[device |-> String(device), on |-> state = JStr("on")]>>]
            ELSE [quiet EXCEPT !.log = <<InvalidToggle>>]
       [] type = JStr("vibrate") -> [quiet EXCEPT !.log = <<message, Vibrating>>]
       [] type = JStr("log") ->
            [quiet EXCEPT !.log = <<message, "[ok] Simulated Log: " \o message>>]
       [] OTHER -> [quiet EXCEPT !.log = <<message>>]

\* a window one millisecond short
ShortWindow(now, last) == now - last < DebounceMs - 1
\* now - lastTriggerTime.current < 2000
Debounced(now, last) == now - last < DebounceMs

NothingFired ==
  [fired |-> <<>>, somethingTriggered |-> FALSE, threw |-> FALSE, log |-> <<>>, devices |-> <<>>]

\* triggers.forEach(...) from index i on; out.fired are the actions handed
\* to triggerAction so far, out.threw tells that the loop was left by an
\* exception
RECURSIVE ForEachTrigger(_, _, _, _, _, _, _, _)
ForEachTrigger(logicName, triggers, actions, sd, now, handler, i, out) ==
  IF i > Len(triggers) THEN out
  ELSE LET r == evaluateTrigger(triggers[i], sd, now)
           own == IF i <= Len(actions) THEN actions[i] ELSE JUndefined
           first == IF Len(actions) >= 1 THEN actions[1] ELSE JUndefined
           actionToRun == IF Truthy(own) THEN own ELSE first
           seen == [out EXCEPT !.somethingTriggered = TRUE]
           did == triggerAction(actionToRun, logicName, handler)
           called == [seen EXCEPT !.fired = Append(@, actionToRun),
                                  !.log = @ \o did.log,
                                  !.devices = @ \o did.devices]
       IN CASE r = "throw" -> [out EXCEPT !.threw = TRUE]
            [] r = "false" ->
                 ForEachTrigger(logicName, triggers, actions, sd, now, handler, i + 1, out)
            [] ~Truthy(actionToRun) ->
                 ForEachTrigger(logicName, triggers, actions, sd, now, handler, i + 1, seen)
            [] did.threw -> [called EXCEPT !.threw = TRUE]
            [] OTHER ->
                 ForEachTrigger(logicName, triggers, actions, sd, now, handler, i + 1, called)

\* an effect that never records the time of its pass
EffectNoStamp(logic, sd, now, last, handler) ==
  IF ~Truthy(logic) \/ Debounced(now, last)
  THEN [fired |-> <<>>, threw |-> FALSE, lastTriggerTime |-> last, log |-> <<>>, devices |-> <<>>]
  ELSE LET out == ForEachTrigger(Get(logic, "name"),
                                 AsArray(Get(logic, "triggers")).items,
                                 AsArray(Get(logic, "actions")).items,
                                 sd, now, handler, 1, NothingFired)
       IN [fired |-> out.fired, threw |-> out.threw, lastTriggerTime |-> last,
           log |-> out.log, devices |-> out.devices]
\* one run of the effect: what it fired, whether it threw, and
\* lastTriggerTime.current after it
Effect(logic, sd, now, last, handler) ==
  IF ~Truthy(logic) \/ Debounced(now, last)
  THEN [fired |-> <<>>, threw |-> FALSE, lastTriggerTime |-> last, log |-> <<>>, devices |-> <<>>]
  ELSE LET out == ForEachTrigger(Get(logic, "name"),
                                 AsArray(Get(logic, "triggers")).items,
                                 AsArray(Get(logic, "actions")).items,
                                 sd, now, handler, 1, NothingFired)
       IN [fired |-> out.fired, threw |-> out.threw,
           lastTriggerTime |-> IF out.somethingTriggered /\ ~out.threw THEN now ELSE last,
           log |-> out.log, devices |-> out.devices]

\* the documents loaded into the engine
ToggleAction(device, state) ==
  JObj(<< <<"type", JStr("toggle")>>,
          <<"payload", JObj(<< <<"device", JStr(device)>>, <<"state", JStr(state)>> >>)>> >>)
FlashAction(color) ==
  JObj(<< <<"type", JStr("flashBackground")>>,
          <<"payload", JObj(<< <<"color", color>> >>)>> >>)
Group(type, conditions) ==
  JObj(<< <<"type", JStr(type)>>, <<"conditions", JArr(conditions)>> >>)
Moving == Condition("motion", "=", JStr("TRUE"))
\* two triggers, each with its action
RunTwo == Logic("R", JArr(<<Hot, Moving>>), JArr(<<LogAction("hot"), ToggleAction("fan", "on")>>))
\* two triggers and one action, whose color is no string
RunFlash == Logic("F", JArr(<<Hot, Moving>>), JArr(<<FlashAction(JNum(5))>>))
\* a trigger and no action
RunEmpty == Logic("E", JArr(<<Hot>>), JArr(<<>>))
\* a group of a sensor condition and the time of day
RunGroup ==
  Logic("G", JArr(<<Group("all", <<Moving, Condition("timeOfDay", "=", JStr("night"))>>)>>),
        JArr(<<LogAction("moved")>>))
\* a toggle that names no state, and a log action for the second trigger
ToggleNoState ==
  JObj(<< <<"type", JStr("toggle")>>, <<"payload", JObj(<< <<"device", JStr("fan")>> >>)>> >>)
RunNoState == Logic("N", JArr(<<Hot, Moving>>), JArr(<<ToggleNoState, LogAction("moved")>>))
\* a toggle whose state is neither "on" nor "off"
RunOddState == Logic("O", JArr(<<Hot>>), JArr(<<ToggleAction("fan", "ON")>>))
\* two triggers that share one toggle
RunTwice == Logic("T", JArr(<<Hot, Moving>>), JArr(<<ToggleAction("fan", "off")>>))
RunnerDocs ==
  {RunTwo, RunFlash, RunEmpty, RunGroup, RunNoState, RunOddState, RunTwice, DocBare}
SensorSnapshots ==
  {[light |-> JNum(50), temperature |-> JNum(temp), motion |-> JBool(m)] :
     temp \in {20, 35}, m \in BOOLEAN}

\* the capacity of the event log
LogCapacity == 50
\* a log that keeps one entry more
SliceOneMore(entries) == SubSeq(entries, 1, Min(Len(entries), LogCapacity + 1))
\* .slice(0, 50)
Slice(entries) == SubSeq(entries, 1, Min(Len(entries), LogCapacity))
\* addLogEntry(message): [{ id, timestamp, message }, ...prev].slice(0, 50)
addLogEntry(prev, message, id, now) ==
  Slice(<<[id |-> id, timestamp |-> now, message |-> message]>> \o prev)
\* addLogEntry for each of the messages in turn; made entries so far
RECURSIVE AddEntries(_, _, _, _)
AddEntries(prev, messages, made, now) ==
  IF messages = <<>> THEN prev
  ELSE AddEntries(addLogEntry(prev, Head(messages), made + 1, now), Tail(messages),
                  made + 1, now)
\* a handler that flips the device instead of setting it
RECURSIVE FlipDevices(_, _)
FlipDevices(prev, changes) ==
  IF changes = <<>> THEN prev
  ELSE FlipDevices((Head(changes).device :> ~prev[Head(changes).device]) @@ prev,
                   Tail(changes))
\* handleDeviceStateChange for each of the changes in turn:
\* { ...prev, [device]: state }
RECURSIVE SetDevices(_, _)
SetDevices(prev, changes) ==
  IF changes = <<>> THEN prev
  ELSE SetDevices((Head(changes).device :> Head(changes).on) @@ prev, Tail(changes))

\* the effect runs with these arguments at the current time; entries is the
\* event log it adds to
EvaluationPassOn(logic, sd, entries) ==
  \E r \in {Effect(logic, sd, clock, lastTriggerTime, deviceHandler)} :
    /\ fired' = r.fired
    /\ lastTriggerTime' = r.lastTriggerTime
    /\ firedAt' = IF r.fired = <<>> THEN firedAt
                  ELSE IF firedAt = <<>> THEN <<clock>>
                  ELSE <<firedAt[Len(firedAt)], clock>>
    /\ runner' = IF r.threw THEN "failed" ELSE "mounted"
    /\ eventLog' = AddEntries(entries, r.log, entryCount, clock)
    /\ entryCount' = entryCount + Len(r.log)
    /\ deviceStates' = SetDevices(deviceStates, r.devices)
EvaluationPass(logic, sd) == EvaluationPassOn(logic, sd, eventLog)

\* the first render of the receiver view: no logic yet, the effect returns
\* at once
Mount(handler) ==
  /\ runner = "unmounted"
  /\ deviceHandler' = handler
  /\ EvaluationPass(activeLogic, sensorData)
  /\ UNCHANGED <<activeLogic, sensorData, clock, clearedAt, notRunner>>

\* a debounce that is a scheduled callback: the effect runs as time passes
AdvanceAndReplay(d, limit) ==
  /\ clock + d <= StartTime + limit
  /\ clock' = clock + d
  /\ IF runner = "mounted"
     THEN \E r \in {Effect(activeLogic, sensorData, clock + d, lastTriggerTime, deviceHandler)} :
            /\ fired' = r.fired
            /\ lastTriggerTime' = r.lastTriggerTime
            /\ firedAt' = IF r.fired = <<>> THEN firedAt ELSE <<clock + d>>
            /\ runner' = IF r.threw THEN "failed" ELSE "mounted"
            /\ eventLog' = AddEntries(eventLog, r.log, entryCount, clock + d)
            /\ entryCount' = entryCount + Len(r.log)
            /\ deviceStates' = SetDevices(deviceStates, r.devices)
     ELSE UNCHANGED <<runner, lastTriggerTime, fired, firedAt, eventLog, entryCount,
                      deviceStates>>
  /\ UNCHANGED <<deviceHandler, activeLogic, sensorData, clearedAt, notRunner>>
\* time passes
Advance(d, limit) ==
  /\ clock + d <= StartTime + limit
  /\ clock' = clock + d
  /\ UNCHANGED <<runner, deviceHandler, activeLogic, sensorData, lastTriggerTime, fired,
                 firedAt, logVars, deviceStates, notRunner>>

Tick(d) == Advance(d, MaxElapsed)

\* setSensorData(newSensorData), then the render and its effect
SensorChange(newSensorData) ==
  /\ runner = "mounted"
  /\ newSensorData # sensorData
  /\ sensorData' = newSensorData
  /\ EvaluationPass(activeLogic, newSensorData)
  /\ UNCHANGED <<deviceHandler, activeLogic, clock, clearedAt, notRunner>>

\* a hook that keeps one debounce timestamp per document: loading starts at 0
LoadLogicFresh(logicToSet) ==
  /\ runner = "mounted"
  /\ logicToSet # activeLogic
  /\ activeLogic' = logicToSet
  /\ \E r \in {Effect(logicToSet, sensorData, clock, 0, deviceHandler)} :
       /\ fired' = r.fired
       /\ lastTriggerTime' = r.lastTriggerTime
       /\ firedAt' = IF r.fired = <<>> THEN firedAt
                     ELSE IF firedAt = <<>> THEN <<clock>>
                     ELSE <<firedAt[Len(firedAt)], clock>>
       /\ runner' = IF r.threw THEN "failed" ELSE "mounted"
       /\ eventLog' = AddEntries(eventLog, r.log, entryCount, clock)
       /\ entryCount' = entryCount + Len(r.log)
       /\ deviceStates' = SetDevices(deviceStates, r.devices)
  /\ UNCHANGED <<deviceHandler, sensorData, clock, clearedAt, notRunner>>
\* setActiveLogic(logicToSet), then the render and its effect; JNull unloads
LoadLogic(logicToSet) ==
  /\ runner = "mounted"
  /\ logicToSet # activeLogic
  /\ activeLogic' = logicToSet
  /\ EvaluationPass(logicToSet, sensorData)
  /\ UNCHANGED <<deviceHandler, sensorData, clock, clearedAt, notRunner>>

\* clearLog: setEventLog([]), then the render; with a handler passed to the
\* hook the effect runs after it, as in Rerender
clearLog ==
  /\ runner = "mounted"
  /\ eventLog # <<>>
  /\ clearedAt' = entryCount
  /\ IF deviceHandler
     THEN EvaluationPassOn(activeLogic, sensorData, <<>>)
     ELSE /\ eventLog' = <<>>
          /\ UNCHANGED <<runner, lastTriggerTime, fired, firedAt, entryCount, deviceStates>>
  /\ UNCHANGED <<deviceHandler, activeLogic, sensorData, clock, notRunner>>

\* handleUnload: handleLogicUpdate(null) and clearLog(), then the render and
\* its effect, which returns at once for no logic
handleUnload ==
  /\ runner = "mounted"
  /\ activeLogic # JNull
  /\ activeLogic' = JNull
  /\ eventLog' = <<>>
  /\ clearedAt' = entryCount
  /\ fired' = <<>>
  /\ UNCHANGED <<runner, deviceHandler, sensorData, clock, lastTriggerTime, firedAt,
                 entryCount, deviceStates, notRunner>>

\* any other render of the receiver view: a handler passed to the hook is a
\* new function in every render, so triggerAction changes and the effect
\* runs again
Rerender ==
  /\ runner = "mounted"
  /\ deviceHandler
  /\ EvaluationPass(activeLogic, sensorData)
  /\ UNCHANGED <<deviceHandler, activeLogic, sensorData, clock, clearedAt, notRunner>>

RunnerNext ==
  \/ \E handler \in BOOLEAN : Mount(handler)
  \/ \E d \in Advances : Tick(d)
  \/ \E newSensorData \in SensorSnapshots : SensorChange(newSensorData)
  \/ \E logicToSet \in RunnerDocs \cup {JNull} : LoadLogic(logicToSet)
  \/ Rerender
  \/ clearLog
  \/ handleUnload

RunnerSpec == InitMixed /\ [][RunnerNext]_vars

(***************************************************************************)
(* The event log over a long run: one document whose five triggers share   *)
(* one log action, so that a pass at 35 degrees makes ten entries, and the *)
(* time for seven such passes.                                             *)
(***************************************************************************)
MaxLogElapsed == 12000
LogDoc == Logic("L", JArr(<<Hot, Hot, Hot, Hot, Hot>>), JArr(<<LogAction("hot")>>))
LogSnapshots == {sd \in SensorSnapshots : sd.motion = JBool(FALSE)}
LogTick == Advance(DebounceMs, MaxLogElapsed)

LogNext ==
  \/ Mount(FALSE)
  \/ LogTick
  \/ \E newSensorData \in LogSnapshots : SensorChange(newSensorData)
  \/ LoadLogic(LogDoc)
  \/ clearLog
  \/ handleUnload

LogSpec == InitMixed /\ [][LogNext]_vars

(***************************************************************************)
(* evaluateTrigger and checkCondition on their own: called with a trigger, *)
(* a sensor snapshot and a time of the day.                                *)
(***************************************************************************)
EvalSensorNames == {"temperature", "light", "motion", "timeOfDay"}
EvalOperators == {">", "<", "=", "!="}
\* condition values: numbers, booleans and strings, some of them numeric or
\* differing from a sensor reading in case only
EvalValues ==
  {JNum(30), JNum(0), JNum(20), JStr("30"), JStr("day"), JStr("Night"), JStr("TRUE"),
   JBool(TRUE), JBool(FALSE)}
EvalConditions ==
  {Condition(sensor, operator, value) :
     sensor \in EvalSensorNames, operator \in EvalOperators, value \in EvalValues}
\* the children of a group: the sequences of at most two members of a set
UpToTwo(S) == {<<>>} \cup {<<a>> : a \in S} \cup {<<a, b>> : a \in S, b \in S}
GroupLeaves == {Hot, Moving}
InnerGroups == {Group(type, kids) : type \in {"all", "any"}, kids \in UpToTwo(GroupLeaves)}
EvalGroups ==
  {Group(type, kids) : type \in {"all", "any"}, kids \in UpToTwo(GroupLeaves \cup InnerGroups)}
\* values that are no trigger: a string, a group without conditions
NoTriggers == {JStr("x"), JObj(<< <<"type", JStr("all")>> >>)}
EvalTriggers == EvalConditions \cup EvalGroups \cup NoTriggers
\* the hours at which the time of day changes, and the hours next to them
EvalHours == {6, 7, 18, 19}
EvalTimes == {hour * 3600000 : hour \in EvalHours}

\* the first call: evaluateTrigger(trigger, sensorData) at time now
Evaluate(trigger, sd, now) ==
  /\ evResult = "none"
  /\ evTrigger' = trigger
  /\ evSensors' = sd
  /\ evNow' = now
  /\ evResult' = evaluateTrigger(trigger, sd, now)
  /\ UNCHANGED notEval

EvalNext ==
  \E trigger \in EvalTriggers, sd \in SensorSnapshots, now \in EvalTimes :
    Evaluate(trigger, sd, now)

EvalSpec == InitMixed /\ [][EvalNext]_vars

(***************************************************************************)
(* gemini-key-rotator.ts, in its two versions: the module state, and the   *)
(* generateWithFallback calls of the server, which interleave at their     *)
(* awaits (fetch and sleepWithJitter).  Keys are numbered 1..n in the      *)
(* order of apiKeys.  A sleep may end at any time; the body of a response  *)
(* is taken to be readable.                                                *)
(***************************************************************************)
COOLDOWN_DURATION_MS == 60000
MAX_FAILURES_PER_KEY == 5
MAX_ATTEMPTS == 6
MAX_RETRIES == 10
\* ttl of the cache in the first and in the second version
CacheTtl(variant) == IF variant = 1 THEN 60000 ELSE 300000
\* the most keys the environment holds, and the time the server is followed
MaxKeys == 2
MaxRotElapsed == 120000
Infinity == 1000000000
Prompts == {"P"}
\* what fetch gives: a 200 with a candidate, a 200 without one, a 429, another
\* 4xx, or a 5xx, a network error or a text that is no JSON
Kinds == {"ok", "empty", "429", "400", "error"}
Texts == {"A"}

FreshKeyState == [cooldownUntil |-> 0, failures |-> 0, isDisabled |-> FALSE]
\* state.isDisabled || Date.now() < state.cooldownUntil
Unavailable(state, now) == state.isDisabled \/ now < state.cooldownUntil

\* a getNextKey that does not look at the cooldown
RECURSIVE SkipDisabledOnly(_, _, _, _, _, _)
SkipDisabledOnly(keys, states, index, now, i, wait) ==
  IF i >= Len(keys) THEN [key |-> NoKey, index |-> index, waitMs |-> wait]
  ELSE IF states[keys[index + 1]].isDisabled
    THEN SkipDisabledOnly(keys, states, (index + 1) % Len(keys), now, i + 1, wait)
  ELSE [key |-> keys[index + 1], index |-> (index + 1) % Len(keys), waitMs |-> 0]
\* the loop of getNextKey from its i-th round: the key, currentKeyIndex
\* afterwards and (second version) the shortest wait
RECURSIVE NextKeyFrom(_, _, _, _, _, _)
NextKeyFrom(keys, states, index, now, i, wait) ==
  IF i >= Len(keys) THEN [key |-> NoKey, index |-> index, waitMs |-> wait]
  ELSE IF Unavailable(states[keys[index + 1]], now)
    THEN NextKeyFrom(keys, states, (index + 1) % Len(keys), now, i + 1,
                     IF states[keys[index + 1]].isDisabled THEN wait
                     ELSE Min(wait, states[keys[index + 1]].cooldownUntil - now))
  ELSE [key |-> keys[index + 1], index |-> (index + 1) % Len(keys), waitMs |-> 0]

getNextKey(keys, states, index, now) ==
  IF Len(keys) = 0 THEN [key |-> NoKey, index |-> index, waitMs |-> 0]
  ELSE NextKeyFrom(keys, states, index, now, 0, Infinity)

\* a limit that does not look at the number of keys
SixAttempts(variant, keys) == IF variant = 1 THEN MAX_ATTEMPTS ELSE MAX_RETRIES
\* Math.min(MAX_ATTEMPTS, apiKeys.length * 2) in the first version,
\* MAX_RETRIES in the second
AttemptLimit(variant, keys) ==
  IF variant = 1 THEN Min(MAX_ATTEMPTS, Len(keys) * 2) ELSE MAX_RETRIES

Failure(status) == [success |-> FALSE, status |-> status, data |-> ""]
Success(data) == [success |-> TRUE, status |-> 200, data |-> data]
\* the call has returned: its locals are gone, its result is with the caller
Returned(call, result) ==
  [IdleCall EXCEPT !.pc = "done", !.prompt = call.prompt, !.result = result]

\* the loop of generateWithFallback from its head to the next await or
\* return: the call and currentKeyIndex afterwards
LoopHead(call, variant, keys, states, index, now) ==
  IF call.attempts >= AttemptLimit(variant, keys)
  THEN [call |-> Returned(call, Failure(503)), index |-> index]
  ELSE LET got == getNextKey(keys, states, index, now)
           next == [call EXCEPT !.attempts = @ + 1, !.apiKey = got.key]
       IN [index |-> got.index,
           call |->
             IF got.key # NoKey
               THEN [next EXCEPT !.pc = "fetching"]
             ELSE IF variant = 2 /\ (got.waitMs = Infinity \/ next.attempts = MAX_RETRIES)
               THEN Returned(next, Failure(503))
             ELSE [next EXCEPT !.pc = "sleeping"]]

\* a cache that is never hit
CacheNever(entries, key, now) == FALSE
\* cache.has(cacheKey), cache.get(cacheKey), cache.set(cacheKey, data)
CacheHas(entries, key, now) == \E e \in entries : e.key = key /\ now <= e.until
CacheGet(entries, key) == (CHOOSE e \in entries : e.key = key).data
CacheSet(entries, key, data, until) ==
  {e \in entries : e.key # key} \cup {[key |-> key, data |-> data, until |-> until]}
\* the entries after cache.get: the second version has updateAgeOnGet
CacheTouched(entries, key, variant, now) ==
  IF variant = 2 THEN CacheSet(entries, key, CacheGet(entries, key), now + CacheTtl(2))
  ELSE entries

\* the module is loaded: one of its versions, in an environment with n keys
ImportModule(variant, n) ==
  /\ rotVariant = 0
  /\ rotVariant' = variant
  /\ envKeys' = n
  /\ UNCHANGED <<apiKeys, keyStates, currentKeyIndex, cache, rotNow, calls, notRotator>>

\* generateWithFallback(options) up to its first await or return:
\* initializeKeys, the cache, the first round of the loop
Generate(c, prompt) ==
  /\ rotVariant # 0
  /\ calls[c].pc = "idle"
  \* a new call is given the first free number
  /\ \A d \in 1..(c - 1) : calls[d].pc # "idle"
  /\ \E keys \in {IF Len(apiKeys) > 0 THEN apiKeys ELSE [i \in 1..envKeys |-> i]} :
     \E states \in {IF Len(apiKeys) > 0 THEN keyStates
                     ELSE [i \in 1..envKeys |-> FreshKeyState]} :
       /\ apiKeys' = keys
       /\ keyStates' = states
       /\ IF CacheHas(cache, prompt, rotNow)
          THEN /\ calls' = [calls EXCEPT ![c] =
                             Returned([IdleCall EXCEPT !.prompt = prompt],
                                      Success(CacheGet(cache, prompt)))]
               /\ cache' = CacheTouched(cache, prompt, rotVariant, rotNow)
               /\ UNCHANGED currentKeyIndex
          ELSE \E r \in {LoopHead([IdleCall EXCEPT !.prompt = prompt], rotVariant, keys,
                                   states, currentKeyIndex, rotNow)} :
                 /\ calls' = [calls EXCEPT ![c] = r.call]
                 /\ currentKeyIndex' = r.index
                 /\ UNCHANGED cache
  /\ UNCHANGED <<rotVariant, envKeys, rotNow, notRotator>>

\* a 429 that starts the cooldown and is not counted
RateLimitedUncounted(state, now) ==
  [cooldownUntil |-> now + COOLDOWN_DURATION_MS,
   failures |-> state.failures,
   isDisabled |-> state.isDisabled]
\* state.cooldownUntil = Date.now() + COOLDOWN_DURATION_MS; state.failures++;
\* if (state.failures >= MAX_FAILURES_PER_KEY) state.isDisabled = true
RateLimited(state, now) ==
  [cooldownUntil |-> now + COOLDOWN_DURATION_MS,
   failures |-> state.failures + 1,
   isDisabled |-> state.isDisabled \/ state.failures + 1 >= MAX_FAILURES_PER_KEY]

\* a client error that is retried with the next key
ClientErrorRetried(c) ==
  \E r \in {LoopHead(calls[c], rotVariant, apiKeys, keyStates, currentKeyIndex, rotNow)} :
    /\ calls' = [calls EXCEPT ![c] = r.call]
    /\ currentKeyIndex' = r.index
    /\ UNCHANGED <<keyStates, cache>>
\* response.status >= 400 && response.status < 500 && response.status !== 429
ClientError(c) ==
  /\ calls' = [calls EXCEPT ![c] = Returned(@, Failure(400))]
  /\ UNCHANGED <<keyStates, currentKeyIndex, cache>>

\* fetch settles for call c, and the call runs to its next await or return
Respond(c, kind, text) ==
  /\ calls[c].pc = "fetching"
  /\ CASE kind = "400" -> ClientError(c)
       [] kind = "429" ->
            \E states \in {[keyStates EXCEPT ![calls[c].apiKey] = RateLimited(@, rotNow)]} :
            \E r \in {LoopHead(calls[c], rotVariant, apiKeys, states, currentKeyIndex,
                                rotNow)} :
              /\ keyStates' = states
              /\ calls' = [calls EXCEPT ![c] = r.call]
              /\ currentKeyIndex' = r.index
              /\ UNCHANGED cache
       [] kind = "ok" ->
            /\ calls' = [calls EXCEPT ![c] = Returned(@, Success(text))]
            /\ cache' = CacheSet(cache, calls[c].prompt, text, rotNow + CacheTtl(rotVariant))
            /\ UNCHANGED <<keyStates, currentKeyIndex>>
       [] kind = "empty" /\ rotVariant = 2 ->
            /\ calls' = [calls EXCEPT ![c] = Returned(@, Failure(400))]
            /\ UNCHANGED <<keyStates, currentKeyIndex, cache>>
       [] OTHER ->
            \* the catch block: sleepWithJitter(backoff)
            /\ calls' = [calls EXCEPT ![c].pc = "sleeping"]
            /\ UNCHANGED <<keyStates, currentKeyIndex, cache>>
  /\ UNCHANGED <<rotVariant, envKeys, apiKeys, rotNow, notRotator>>

\* the sleep of call c ends, and the call runs to its next await or return
Wake(c) ==
  /\ calls[c].pc = "sleeping"
  /\ \E r \in {LoopHead(calls[c], rotVariant, apiKeys, keyStates, currentKeyIndex, rotNow)} :
       /\ calls' = [calls EXCEPT ![c] = r.call]
       /\ currentKeyIndex' = r.index
  /\ UNCHANGED <<rotVariant, envKeys, apiKeys, keyStates, cache, rotNow, notRotator>>

\* the caller has the result of call c
Return(c) ==
  /\ calls[c].pc = "done"
  /\ calls' = [calls EXCEPT ![c] = IdleCall]
  /\ UNCHANGED <<rotVariant, envKeys, apiKeys, keyStates, currentKeyIndex, cache, rotNow,
                 notRotator>>

\* a cooldown's length of time passes
RotTimePasses ==
  /\ rotVariant # 0
  /\ rotNow + COOLDOWN_DURATION_MS <= MaxRotElapsed
  /\ rotNow' = rotNow + COOLDOWN_DURATION_MS
  /\ UNCHANGED <<rotVariant, envKeys, apiKeys, keyStates, currentKeyIndex, cache, calls,
                 notRotator>>

RotNext ==
  \/ \E variant \in {1, 2}, n \in 0..MaxKeys : ImportModule(variant, n)
  \/ \E c \in 1..MaxCalls, prompt \in Prompts : Generate(c, prompt)
  \/ \E c \in 1..MaxCalls, kind \in Kinds, text \in Texts : Respond(c, kind, text)
  \/ \E c \in 1..MaxCalls : Wake(c)
  \/ \E c \in 1..MaxCalls : Return(c)
  \/ RotTimePasses

RotSpec == InitMixed /\ [][RotNext]_vars
\* the calls of callers that keep their results: the event loop runs a
\* callback that is due (fetch settles, a sleep ends), and when a call is made
\* is up to its caller
FirstCalls ==
  \/ \E variant \in {1, 2}, n \in 0..MaxKeys : ImportModule(variant, n)
  \/ \E c \in 1..MaxCalls, prompt \in Prompts : Generate(c, prompt)
  \/ \E c \in 1..MaxCalls, kind \in Kinds, text \in Texts : Respond(c, kind, text)
  \/ \E c \in 1..MaxCalls : Wake(c)
  \/ RotTimePasses
FairRotSpec ==
  /\ InitMixed /\ [][FirstCalls]_vars
  /\ WF_vars(\E c \in 1..MaxCalls :
               Wake(c) \/ \E kind \in Kinds, text \in Texts : Respond(c, kind, text))

(***************************************************************************)
(* Properties of the receiver.                                             *)
(***************************************************************************)
\* toasts raised with variant: 'destructive'
Destructive == {"Scan Mismatch", "Incomplete Scan", "Assembly Error"}

\* what the decoder shows of a session: sessionId, totalChunks, received
SessionState == <<scanSessionId, totalChunks, scannedChunks>>

\* the frame is a structured chunk, and one of its fields
IsChunkFrame(f) == JSONparse(f).ok /\ IsStructuredChunk(JSONparse(f).value)
ChunkField(f, key) == Get(JSONparse(f).value, key)

\* the chunk's checksum field differs from calculateChecksum(data)
Corrupt(f) ==
  /\ IsChunkFrame(f)
  /\ ChunkField(f, "checksum") # JStr(calculateChecksum(ChunkField(f, "data").s))

\* while collecting, the chunk belongs to the open session and its index is
\* already received
Duplicate(f) ==
  /\ scanner = "SCANNING"
  /\ IsChunkFrame(f)
  /\ ChunkField(f, "sessionId").s = scanSessionId
  /\ ChunkField(f, "chunkIndex").n \in MapKeys(scannedChunks)

\* a session is open and the chunk carries another sessionId
Mismatch(f) ==
  /\ IsChunkFrame(f)
  /\ scanSessionId # NULL
  /\ ChunkField(f, "sessionId").s # scanSessionId

\* C1 (session isolation): the chunks an emitted document was assembled from,
\* stored with no reset between them, all carry the same sessionId.
C1_SessionIsolation ==
  \A i \in 1..Len(emittedOrigin) :
    \A a, b \in DOMAIN emittedOrigin[i].from :
      (~emittedOrigin[i].from[a].stale /\ ~emittedOrigin[i].from[b].stale)
        => emittedOrigin[i].from[a].sid = emittedOrigin[i].from[b].sid

\* C2 (checksum rejection): decoding a structured chunk whose checksum field
\* differs from the checksum of its data stores nothing, leaves sessionId,
\* totalChunks and received as they were, emits nothing and raises an error.
C2_ChecksumRejection ==
  [][\A f \in AllFrames :
       (Corrupt(f) /\ Scan(f))
         => /\ SessionState' = SessionState
            /\ emitted' = emitted
            /\ toasts' \cap Destructive # {}]_vars

\* C3 (round trip): when the camera is shown the codes of one encode call only,
\* nothing but the normalized form of the encoded document is emitted, once.
C3_RoundTrip ==
  source \in Sessions
    => emitted = <<>> \/ emitted = <<Normalize(DocOfSession(source))>>

\* C4 (order independence): when the camera is shown the codes of one encode
\* call only, in whatever order and however often, assembly never fails and
\* every assembled document is the encoded document.
C4_OrderIndependence ==
  source \in Sessions
    => /\ "Assembly Error" \notin toasts
       /\ \A i \in 1..Len(emitted) : emitted[i] = DocOfSession(source)

\* C4 has happened: the document of session 1 was assembled from chunks that
\* were received in the order 3, 1, 2.
C4_Witness ==
  /\ source = 1
  /\ emitted = <<DocLm>>
  /\ Len(scannedChunks) = 3
  /\ <<scannedChunks[1][1], scannedChunks[2][1], scannedChunks[3][1]>> = <<3, 1, 2>>

\* C5 (idempotence): decoding a chunk of the open session whose index is
\* already received leaves sessionId, totalChunks and received unchanged and
\* emits nothing.
C5_Idempotence ==
  [][\A f \in AllFrames :
       (Duplicate(f) /\ Scan(f)) => (SessionState' = SessionState /\ emitted' = emitted)]_vars

\* C6 (session mismatch): while a session is open, decoding a structured chunk
\* with another sessionId leaves sessionId, totalChunks and received unchanged
\* and raises the Scan Mismatch signal.
C6_SessionMismatch ==
  [][\A f \in AllFrames :
       (Mismatch(f) /\ Scan(f))
         => (SessionState' = SessionState /\ "Scan Mismatch" \in toasts')]_vars

\* C7 (schema): every value handed to onScanSuccess satisfies LogicSchema.
C7_EmittedSatisfySchema == \A i \in 1..Len(emitted) : LogicSchemaOk(emitted[i])

\* C8 (completeness): a document emitted through assembly was built from
\* exactly the indices 1..totalChunks.
C8_AssemblyComplete ==
  \A i \in 1..Len(emittedOrigin) :
    emittedOrigin[i].total # NONE
      => DOMAIN emittedOrigin[i].from = 1..emittedOrigin[i].total

\* C9 (reset): every reset (the Reset Progress button, a finished or repeated
\* stop, a new start) leaves sessionId none, totalChunks none and received
\* empty, whatever they were before, and raises no error.
C9_Reset ==
  [][(ResetProgress \/ StopFinish \/ StartScan \/ (StopScanClick /\ scanner = "STOPPING"))
       => /\ SessionState' = <<NULL, NONE, EmptyMap>>
          /\ toasts' \cap Destructive = {}]_vars

\* C9 has happened: Reset Progress was pressed while chunks were collected
\* and the camera keeps scanning.
C9_Witness ==
  /\ scanner = "SCANNING"
  /\ hChunks # EmptyMap
  /\ \A k \in DOMAIN origin : origin[k].stale
  /\ SessionState = <<NULL, NONE, EmptyMap>>
  /\ toasts = {}

\* C10 (reset forgets): received, and every document assembled from it, holds
\* only chunks that were stored after the last reset.
C10_ResetForgets ==
  /\ \A k \in DOMAIN sOrigin : ~sOrigin[k].stale
  /\ \A i \in 1..Len(emittedOrigin) :
       \A k \in DOMAIN emittedOrigin[i].from : ~emittedOrigin[i].from[k].stale

\* JSON.parse throws on the frame
Unparseable(f) == ~JSONparse(f).ok

\* C11 (assembly failure): a failed assembly emits nothing and leaves the
\* session reset; every assembled document that is emitted satisfies
\* LogicSchema; and the first chunk decoded after a failed assembly opens a
\* session that holds this chunk only.
C11_AssemblyFailure ==
  [][\A f \in AllFrames :
       Scan(f)
         => /\ "Assembly Error" \in toasts'
                 => (emitted' = emitted /\ SessionState' = <<NULL, NONE, EmptyMap>>)
            /\ \A i \in 1..Len(emittedOrigin') :
                 emittedOrigin'[i].total # NONE => LogicSchemaOk(emitted'[i])
            /\ ("Assembly Error" \in toasts /\ scanner = "SCANNING" /\ IsChunkFrame(f))
                 => MapKeys(scannedChunks') \subseteq {ChunkField(f, "chunkIndex").n}]_vars

C13_TotalChunksFixed ==
  [][\A f \in AllFrames :
       (scanSessionId # NULL /\ Scan(f) /\ scanSessionId' = scanSessionId)
         => totalChunks' = totalChunks]_vars

\* C14 (normalized at the boundary): every emitted document has triggers and
\* actions that are sequences.
C14_EmittedNormalized ==
  \A i \in 1..Len(emitted) :
    emitted[i].t = "obj"
      => (Get(emitted[i], "triggers").t = "arr" /\ Get(emitted[i], "actions").t = "arr")

\* C15 (abandonment): an open, incomplete session is eventually destroyed
\* even if the user does nothing and no further frame is decoded.
C15_AbandonedSessionEnds ==
  (scanSessionId # NULL /\ totalChunks # NONE /\ Len(scannedChunks) < totalChunks)
    ~> (scanSessionId = NULL /\ scannedChunks = EmptyMap)

\* this step handed an assembled document to onScanSuccess
AssemblyEmits ==
  /\ Len(emittedOrigin') > Len(emittedOrigin)
  /\ emittedOrigin'[Len(emittedOrigin')].total # NONE
\* the stop that a successful assembly started has not finished, and the
\* chunk belongs to the session that was assembled
SameSessionBeforeStop(f) ==
  /\ pendingStop = "success"
  /\ emittedOrigin # <<>>
  /\ emittedOrigin[Len(emittedOrigin)].total # NONE
  /\ IsChunkFrame(f)
  /\ \E k \in DOMAIN emittedOrigin[Len(emittedOrigin)].from :
       emittedOrigin[Len(emittedOrigin)].from[k].sid = ChunkField(f, "sessionId").s

\* C29 as stated (emit once and close): the decode that completes a session
\* hands the document to onScanSuccess once and leaves sessionId none,
\* totalChunks none and received empty; a chunk of that session decoded
\* before the camera has stopped emits nothing.
C29_EmitOnceAndClose ==
  [][\A f \in AllFrames :
       Scan(f)
         => /\ AssemblyEmits
                 => /\ Len(emitted') = Len(emitted) + 1
                    /\ SessionState' = <<NULL, NONE, EmptyMap>>
            /\ SameSessionBeforeStop(f) => emitted' = emitted]_vars
\* C29, amended (emit once, closed when the camera has stopped): the decode
\* that completes a session hands the document to onScanSuccess once and
\* starts the stop of the scanner, or leaves the session closed at once; when
\* that stop has finished sessionId is none, totalChunks none and received
\* empty; a chunk of that session decoded before the camera has stopped emits
\* nothing.
C29_EmitOnceCloseAtStop ==
  [][/\ \A f \in AllFrames :
          Scan(f)
            => /\ AssemblyEmits
                    => /\ Len(emitted') = Len(emitted) + 1
                       /\ pendingStop' = "success" \/ SessionState' = <<NULL, NONE, EmptyMap>>
               /\ SameSessionBeforeStop(f) => emitted' = emitted
     /\ StopFinish => SessionState' = <<NULL, NONE, EmptyMap>>]_vars
\* on a camera that is shown the codes of one session only, the session was
\* assembled and emitted, and one more of its chunks was decoded while the
\* scanner was stopping
C29_Witness ==
  /\ source # 0
  /\ scanner = "STOPPING"
  /\ pendingStop = "success"
  /\ ~inFlight
  /\ Len(emitted) = 1
  /\ emittedOrigin[1].total # NONE
  /\ scanSessionId # NULL

\* JSON.parse returns on the frame, and what it returns is no structured chunk
Standalone(f) == JSONparse(f).ok /\ ~IsChunkFrame(f)

\* C30 (standalone fallback): decoding a frame that parses and is no
\* structured chunk hands the parsed value to onScanSuccess, with no chunk
\* stored or assembled, and stops the scanner; once the scanner has stopped
\* the session that was being collected is gone: sessionId none, totalChunks
\* none, received empty.
C30_StandaloneFallback ==
  /\ [][\A f \in AllFrames :
          (Standalone(f) /\ Scan(f))
            => /\ emitted' = Append(emitted, JSONparse(f).value)
               /\ emittedOrigin' = Append(emittedOrigin, Direct)
               /\ \/ pendingStop' = "success" /\ SessionState' = SessionState
                  \/ SessionState' = <<NULL, NONE, EmptyMap>>]_vars
  /\ (pendingStop = "success") ~> (SessionState = <<NULL, NONE, EmptyMap>>)
\* chunk 1 of a three-chunk session was received, then a bare document was
\* decoded and emitted
C30_Witness ==
  /\ pendingStop = "success"
  /\ Len(emitted) = 1
  /\ emittedOrigin = <<Direct>>
  /\ scanSessionId # NULL
  /\ totalChunks = 3
  /\ MapKeys(scannedChunks) = {1}

(***************************************************************************)
(* Properties of the sender.                                               *)
(***************************************************************************)
\* C16 (encoder output): the chunks of one encode call carry chunkIndex
\* 1, 2, ..., n in this order, all with the call's sessionId and with
\* totalChunks = n; each carries the checksum of its own data; and the data
\* fields joined in chunkIndex order are the serialized document.
C16_EncoderOutput ==
  encLogic # JNull
    => /\ \A k \in 1..Len(encChunks) :
            /\ Get(encChunks[k].chunk, "chunkIndex") = JNum(k)
            /\ Get(encChunks[k].chunk, "sessionId") = JStr(encSessionId)
            /\ Get(encChunks[k].chunk, "totalChunks") = JNum(Len(encChunks))
            /\ Get(encChunks[k].chunk, "checksum")
                 = JStr(calculateChecksum(Get(encChunks[k].chunk, "data").s))
       /\ JoinData([k \in 1..Len(encChunks) |->
                      <<k, Get(encChunks[k].chunk, "data").s>>]) = JSONstringify(encLogic)

\* C16 has happened: a document was encoded into three chunks.
C16_Witness ==
  /\ encLogic = DocLn
  /\ encSessionId = Uuid(2)
  /\ Len(encChunks) = 3

\* C17 (budget): for every wire string of an encode call, its length minus
\* the length of its data is at most overhead, and it is at most CHUNK_SIZE
\* characters long.
C17_Budget ==
  \A k \in 1..Len(encChunks) :
    /\ Len(encChunks[k].text) - Len(Get(encChunks[k].chunk, "data").s) <= overhead
    /\ Len(encChunks[k].text) <= CHUNK_SIZE

C19_ChecksumSensitivity ==
  csRead # csChunk.data
    => calculateChecksum(csRead) # csChunk.checksum

(***************************************************************************)
(* Properties of the rule engine.                                          *)
(***************************************************************************)
\* C20 (debounce safety): when a pass has fired an action at time t, the
\* next pass that fires an action does so at t + 2000 ms or later, whatever
\* was loaded and whatever the sensors showed in between.
C20_DebounceSafety ==
  Len(firedAt) = 2 => firedAt[2] >= firedAt[1] + DebounceMs

\* C20 has happened: a pass fired an action, and the next pass to fire one
\* ran when exactly 2000 ms had gone by.
C20_Witness ==
  /\ Len(firedAt) = 2
  /\ firedAt[2] = firedAt[1] + DebounceMs
  /\ clock = firedAt[2]
  /\ fired # <<>>

\* the triggers and the actions the effect walks
TriggersOf(logic) == AsArray(Get(logic, "triggers")).items
ActionsOf(logic) == AsArray(Get(logic, "actions")).items
\* a step in which the effect of the mounted hook ran
PassStep ==
  /\ runner = "mounted"
  /\ clock' = clock
  /\ clearedAt' # clearedAt => (activeLogic' = JNull \/ deviceHandler)
\* the time of the last pass that fired an action, NONE when none did
LastFiredAt == IF firedAt = <<>> THEN NONE ELSE firedAt[Len(firedAt)]
\* a loaded document with one trigger and an action for it
OneTrigger(logic) ==
  /\ Truthy(logic)
  /\ Len(TriggersOf(logic)) = 1
  /\ Len(ActionsOf(logic)) >= 1

\* C21 (debounce rate): while the debounce timestamp is not later than the
\* last action event (no pass since then found a trigger true and fired
\* nothing), every pass over a one-trigger document whose trigger is true
\* fires exactly one action when no action was fired in the last 2000 ms and
\* none otherwise: one action event per window, not one per sensor tick.
C21_DebounceRate ==
  [][(/\ PassStep
      /\ OneTrigger(activeLogic')
      /\ evaluateTrigger(TriggersOf(activeLogic')[1], sensorData', clock) = "true"
      /\ lastTriggerTime <= (IF firedAt = <<>> THEN 0 ELSE LastFiredAt))
       => Len(fired') = (IF firedAt = <<>> \/ clock >= LastFiredAt + DebounceMs
                         THEN 1 ELSE 0)]_vars

\* C21 has happened: the trigger of the loaded document is true, an action
\* was fired twice, and a later pass inside the second window fired nothing.
C21_Witness ==
  /\ runner = "mounted"
  /\ OneTrigger(activeLogic)
  /\ evaluateTrigger(TriggersOf(activeLogic)[1], sensorData, clock) = "true"
  /\ Len(firedAt) = 2
  /\ lastTriggerTime = firedAt[2]
  /\ clock > firedAt[2]
  /\ clock < firedAt[2] + DebounceMs
  /\ fired = <<>>

\* the indexes of the triggers that evaluate true
TrueTriggers(logic, sd, now) ==
  {i \in 1..Len(TriggersOf(logic)) : evaluateTrigger(TriggersOf(logic)[i], sd, now) = "true"}
\* the actions the firing policy asks for, from trigger index i on:
\* actions[i] when it exists and actions[0] otherwise, for each true trigger
RECURSIVE PolicyFrom(_, _, _, _)
PolicyFrom(logic, sd, now, i) ==
  IF i > Len(TriggersOf(logic)) THEN <<>>
  ELSE (IF i \notin TrueTriggers(logic, sd, now) THEN <<>>
        ELSE IF i <= Len(ActionsOf(logic)) THEN <<ActionsOf(logic)[i]>>
        ELSE <<ActionsOf(logic)[1]>>)
       \o PolicyFrom(logic, sd, now, i + 1)
\* every trigger of the document evaluates to true or to false
Evaluable(logic, sd, now) ==
  \A i \in 1..Len(TriggersOf(logic)) :
    evaluateTrigger(TriggersOf(logic)[i], sd, now) \in {"true", "false"}

\* C22 (firing policy): a pass that debounce does not suppress, over a
\* document with at least one action, fires for each true trigger i exactly
\* actions[i], or actions[0] when there is no actions[i], in trigger order,
\* and nothing else; it sets the debounce timestamp to the pass time when a
\* trigger was true and leaves it alone otherwise.
C22_FiringPolicy ==
  [][(/\ PassStep
      /\ Truthy(activeLogic')
      /\ ~Debounced(clock, lastTriggerTime)
      /\ Len(ActionsOf(activeLogic')) >= 1
      /\ Evaluable(activeLogic', sensorData', clock))
       => /\ fired' = PolicyFrom(activeLogic', sensorData', clock, 1)
          /\ lastTriggerTime' = (IF TrueTriggers(activeLogic', sensorData', clock) # {}
                                 THEN clock ELSE lastTriggerTime)]_vars

\* the payload of the action is malformed: it does not have the shape of
\* the schema, or it is a toggle's and names no device or no state
Malformed(action) ==
  \/ ~ActionOk(action)
  \/ /\ Get(action, "type") = JStr("toggle")
     /\ \/ ~Truthy(Get(Get(action, "payload"), "device"))
        \/ ~Truthy(Get(Get(action, "payload"), "state"))
\* the actions the firing policy asks of this pass
Asked == PolicyFrom(activeLogic', sensorData', clock, 1)
\* how many of them are malformed
MalformedAsked == Cardinality({i \in 1..Len(Asked) : Malformed(Asked[i])})
\* the warnings this step added to the event log
WarningsAdded ==
  Cardinality({i \in 1..Len(eventLog') :
                 eventLog'[i].id > entryCount /\ eventLog'[i].message = InvalidToggle})

\* C27 (malformed action payload): a pass that debounce does not suppress and
\* that is asked for a malformed action, and for no well-formed toggle, does
\* not raise, changes no device state, appends a warning entry for each
\* malformed action and fires for the remaining triggers as the policy says.
C27_MalformedPayload ==
  [][(/\ PassStep
      /\ Truthy(activeLogic')
      /\ ~Debounced(clock, lastTriggerTime)
      /\ Evaluable(activeLogic', sensorData', clock)
      /\ MalformedAsked >= 1
      /\ \A i \in 1..Len(Asked) :
           Get(Asked[i], "type") = JStr("toggle") => Malformed(Asked[i]))
       => /\ runner' = "mounted"
          /\ deviceStates' = deviceStates
          /\ WarningsAdded >= MalformedAsked
          /\ fired' = Asked]_vars
\* a toggle without a state was fired: the warning is in the log and the
\* action of the second trigger was fired after it
C27_Witness ==
  /\ runner = "mounted"
  /\ fired = <<ToggleNoState, LogAction("moved")>>
  /\ Len(eventLog) >= 3
  /\ eventLog[3].message = InvalidToggle
  /\ deviceStates = InitialDeviceStates

\* C28 (event log bound): the event log holds at most 50 entries, newest
\* first, and they are exactly the most recent entries made since the log
\* was last cleared: all of them when there are at most 50, the last 50
\* otherwise.
C28_EventLogBound ==
  /\ Len(eventLog) <= LogCapacity
  /\ Len(eventLog) = Min(LogCapacity, entryCount - clearedAt)
  /\ \A i \in 1..Len(eventLog) : eventLog[i].id = entryCount - i + 1
  /\ \A i \in 1..(Len(eventLog) - 1) : eventLog[i].timestamp >= eventLog[i + 1].timestamp
\* after a clear more than 50 entries were made, in passes at different times
C28_Witness ==
  /\ clearedAt > 0
  /\ entryCount - clearedAt > LogCapacity
  /\ Len(eventLog) = LogCapacity
  /\ eventLog[1].timestamp > eventLog[LogCapacity].timestamp

\* C31 (the timestamp is the runner's): a step that replaces, unloads or
\* loads the document never moves the debounce timestamp back, and when it
\* comes less than 2000 ms after the last pass that fired an action it fires
\* nothing and leaves the timestamp alone, whatever the new document's
\* triggers say.
C31_TimestampOutlivesDocument ==
  [][(runner = "mounted" /\ activeLogic' # activeLogic)
       => /\ lastTriggerTime' >= lastTriggerTime
          /\ (firedAt # <<>> /\ clock < LastFiredAt + DebounceMs)
               => (fired' = <<>> /\ lastTriggerTime' = lastTriggerTime)]_vars
\* RunGroup fired last, less than 2000 ms ago; RunTwo is loaded now, its
\* first trigger is true and it has fired nothing
C31_Witness ==
  /\ runner = "mounted"
  /\ activeLogic = RunTwo
  /\ sensorData.temperature = JNum(35)
  /\ fired = <<>>
  /\ eventLog # <<>>
  /\ eventLog[1].message = "[ok] Simulated Log: moved"
  /\ clock < LastFiredAt + DebounceMs

\* no action was handed to triggerAction in this step
NothingFiresNow == firedAt' = firedAt /\ entryCount' = entryCount

\* C32 as stated (no replay): passes run only when the document or the
\* sensor snapshot changes: a step of the mounted runner that changes neither
\* fires no action, however long ago the last pass was suppressed.
C32_NoReplay ==
  [][(runner = "mounted" /\ activeLogic' = activeLogic /\ sensorData' = sensorData)
       => NothingFiresNow]_vars
\* C32, amended (no replay unless the callback changes): when the caller
\* passes no onDeviceStateChange to the hook, a step of the mounted runner
\* that changes neither the document nor the sensor snapshot fires no action,
\* however long ago the last pass was suppressed.
C32_NoReplayWithoutHandler ==
  [][(runner = "mounted" /\ ~deviceHandler
        /\ activeLogic' = activeLogic /\ sensorData' = sensorData)
       => NothingFiresNow]_vars

\* without a handler: RunTwo fired its log action at the start, motion became
\* true inside the window and fired nothing, and the window has gone by
C32_Witness ==
  /\ runner = "mounted"
  /\ ~deviceHandler
  /\ activeLogic = RunTwo
  /\ sensorData.temperature = JNum(20)
  /\ sensorData.motion = JBool(TRUE)
  /\ firedAt = <<StartTime>>
  /\ fired = <<>>
  /\ clock >= lastTriggerTime + DebounceMs

\* the toggles among the actions fired by this step that name device d and
\* a state, as positions of fired'
TogglesOf(d) ==
  {i \in 1..Len(fired') :
     /\ Get(fired'[i], "type") = JStr("toggle")
     /\ Get(Get(fired'[i], "payload"), "device") = JStr(d)
     /\ Truthy(Get(Get(fired'[i], "payload"), "state"))}
\* the state named by the i-th of them is on
NamesOn(i) == Get(Get(fired'[i], "payload"), "state") = JStr("on")

\* C33 (toggle): in a pass of a runner whose caller keeps the device states,
\* a device named by a toggle of the pass is on afterwards iff the state of
\* that toggle is on, once or several times fired, and a device that no
\* toggle of the pass names keeps its state; there are still four devices.
C33_ToggleSetsOneDevice ==
  [][(PassStep /\ deviceHandler)
       => /\ DOMAIN deviceStates' = DOMAIN deviceStates
          /\ \A d \in DOMAIN deviceStates :
               /\ TogglesOf(d) = {} => deviceStates'[d] = deviceStates[d]
               /\ \A i \in TogglesOf(d) :
                    (\A j \in TogglesOf(d) : fired'[j] = fired'[i])
                      => deviceStates'[d] = NamesOn(i)]_vars
\* the fan was turned on by one pass and a later pass fired the same toggle
\* to off twice: it is off, as are the other three
C33_Witness ==
  /\ deviceHandler
  /\ runner = "mounted"
  /\ fired = <<ToggleAction("fan", "off"), ToggleAction("fan", "off")>>
  /\ Len(eventLog) >= 3
  /\ eventLog[3].message = ToggleMessage(JStr("fan"), TRUE)
  /\ deviceStates = InitialDeviceStates

(***************************************************************************)
(* Properties of evaluateTrigger.                                          *)
(***************************************************************************)
\* the call was made with a single condition
IsCondition(trigger) == HasSensor(trigger)
\* the sensor operand of a condition: the day/night value for timeOfDay, the
\* snapshot's reading otherwise
SensorOperand(condition, sd, now) ==
  IF Get(condition, "sensor") = JStr("timeOfDay") THEN JStr(getTimeOfDay(now))
  ELSE SensorValue(sd, Get(condition, "sensor"))
\* both operands are numbers and the comparison named by the operator holds
NumbersInOrder(operator, sensorValue, value) ==
  /\ sensorValue.t = "num"
  /\ value.t = "num"
  /\ IF operator = JStr(">") THEN sensorValue.n > value.n ELSE sensorValue.n < value.n

\* C23 (ordering operators): a condition with operator > or < is true only
\* when the sensor operand and the condition value are both numbers and the
\* comparison holds, and is false otherwise.
C23_OrderingNeedsNumbers ==
  (IsCondition(evTrigger) /\ Get(evTrigger, "operator") \in {JStr(">"), JStr("<")})
    => evResult = (IF NumbersInOrder(Get(evTrigger, "operator"),
                                     SensorOperand(evTrigger, evSensors, evNow),
                                     Get(evTrigger, "value"))
                   THEN "true" ELSE "false")

\* the lower-cased string forms of the two operands are equal
SameText(sensorValue, value) == toLowerCase(String(sensorValue)) = toLowerCase(String(value))

\* C24 (equality operators): for every sensor, timeOfDay with its day/night
\* operand included, = is true exactly when the lower-cased string forms of
\* the sensor operand and of the condition value are equal, and != is true
\* exactly when they differ.
C24_EqualityByText ==
  (IsCondition(evTrigger) /\ Get(evTrigger, "operator") \in {JStr("="), JStr("!=")})
    => evResult = (IF SameText(SensorOperand(evTrigger, evSensors, evNow),
                               Get(evTrigger, "value"))
                      = (Get(evTrigger, "operator") = JStr("="))
                   THEN "true" ELSE "false")

\* a group of type all or any with a sequence of conditions
IsGroup(trigger) ==
  /\ trigger.t = "obj"
  /\ ~HasSensor(trigger)
  /\ Get(trigger, "type") \in {JStr("all"), JStr("any")}
  /\ Get(trigger, "conditions").t = "arr"
\* what a trigger tree of conditions and groups means: a condition is what
\* checkCondition says, an all group needs every child, an any group one
RECURSIVE Holds(_, _, _)
Holds(trigger, sd, now) ==
  IF IsGroup(trigger)
  THEN LET kids == Get(trigger, "conditions").items
       IN IF Get(trigger, "type") = JStr("all")
          THEN \A i \in 1..Len(kids) : Holds(kids[i], sd, now)
          ELSE \E i \in 1..Len(kids) : Holds(kids[i], sd, now)
  ELSE checkCondition(trigger, sd, now)

\* C25 (group evaluation): at every nesting depth an all group is true
\* exactly when every child is true and an any group exactly when at least
\* one child is; an empty all group is true and an empty any group false.
C25_GroupEvaluation ==
  IsGroup(evTrigger)
    => evResult = (IF Holds(evTrigger, evSensors, evNow) THEN "true" ELSE "false")

\* C25 has happened: an any group whose second child is an empty all group,
\* after a child that is false, was evaluated and found true.
C25_Witness ==
  /\ evTrigger = Group("any", <<Hot, Group("all", <<>>)>>)
  /\ evSensors.temperature = JNum(20)
  /\ evResult = "true"

\* a trigger tree as the types allow it: conditions with an allowed sensor,
\* an allowed operator and a number, boolean or string value, in groups of
\* type all or any
RECURSIVE WellFormed(_)
WellFormed(trigger) ==
  IF IsGroup(trigger)
  THEN \A i \in 1..Len(Get(trigger, "conditions").items) :
         WellFormed(Get(trigger, "conditions").items[i])
  ELSE /\ IsCondition(trigger)
       /\ Get(trigger, "sensor") \in {JStr(name) : name \in EvalSensorNames}
       /\ Get(trigger, "operator") \in {JStr(op) : op \in EvalOperators}
       /\ Get(trigger, "value").t \in {"num", "bool", "str"}

\* C26 (evaluation is total): on every well-formed trigger tree and every
\* sensor snapshot evaluateTrigger returns true or false and does not
\* raise; operator > with the value "day" against a numeric sensor is false.
C26_EvaluationTotal ==
  WellFormed(evTrigger)
    => /\ evResult \in {"true", "false"}
       /\ (/\ IsCondition(evTrigger)
           /\ Get(evTrigger, "operator") = JStr(">")
           /\ Get(evTrigger, "value") = JStr("day")
           /\ SensorOperand(evTrigger, evSensors, evNow).t = "num")
            => evResult = "false"

\* C26 has happened: temperature > "day" was evaluated at 35 degrees.
C26_Witness ==
  /\ evTrigger = Condition("temperature", ">", JStr("day"))
  /\ evSensors.temperature = JNum(35)
  /\ evResult = "false"
(***************************************************************************)
(* Properties of the key rotator.                                          *)
(***************************************************************************)
\* key k can be used now
Usable(k) == ~Unavailable(keyStates[k], rotNow)
\* the key at the j-th place of the round that starts at currentKeyIndex
KeyInRound(j) == apiKeys[((currentKeyIndex + j) % Len(apiKeys)) + 1]
\* call c is given a key in this step
Selects(c) ==
  /\ calls'[c].pc = "fetching"
  /\ calls'[c].attempts # calls[c].attempts

\* C34: getNextKey returns no key that is disabled or cooling down, returns
\* no key exactly when every key is disabled or cooling down, returns the
\* first usable key of the round that starts at currentKeyIndex and leaves
\* currentKeyIndex behind that key (where it was, when there is none), and
\* currentKeyIndex stays within 0..n-1; a call that is given a key is given
\* one that is usable at that time.
C34_KeySelection ==
  /\ [](\E got \in {getNextKey(apiKeys, keyStates, currentKeyIndex, rotNow)} :
         /\ got.key # NoKey => got.key \in 1..Len(apiKeys) /\ Usable(got.key)
         /\ got.key = NoKey <=> \A k \in 1..Len(apiKeys) : ~Usable(k)
         /\ Len(apiKeys) > 0 =>
              /\ currentKeyIndex \in 0..(Len(apiKeys) - 1)
              /\ got.index \in 0..(Len(apiKeys) - 1)
         /\ got.key = NoKey => got.index = currentKeyIndex
         /\ got.key # NoKey =>
              \E j \in 0..(Len(apiKeys) - 1) :
                /\ KeyInRound(j) = got.key
                /\ \A i \in 0..(j - 1) : ~Usable(KeyInRound(i))
                /\ got.index = (currentKeyIndex + j + 1) % Len(apiKeys))
  /\ [][\A c \in 1..MaxCalls :
          Selects(c) =>
            /\ ~Unavailable(keyStates'[calls'[c].apiKey], rotNow')
            /\ currentKeyIndex' = calls'[c].apiKey % Len(apiKeys')]_vars
\* the first key is cooling down and is next in the round, and a call has been
\* given the second key
C34_Witness ==
  /\ Len(apiKeys) = 2
  /\ currentKeyIndex = 0
  /\ ~keyStates[1].isDisabled
  /\ rotNow < keyStates[1].cooldownUntil
  /\ Usable(2)
  /\ \E c \in 1..MaxCalls :
       calls[c].pc = "fetching" /\ calls[c].apiKey = 2 /\ calls[c].attempts = 1

\* C35: a 429 puts the key that was used on cooldown until 60 s from now and
\* adds one to its failures, and changes no other key; a key is disabled
\* exactly when its failures have reached 5; failures never decrease, a
\* disabled key stays disabled, and no call is given a disabled key.
C35_RateLimiting ==
  /\ [](\A k \in DOMAIN keyStates :
          keyStates[k].isDisabled <=> keyStates[k].failures >= MAX_FAILURES_PER_KEY)
  /\ [][/\ \A c \in 1..MaxCalls, text \in Texts :
             Respond(c, "429", text) =>
               /\ keyStates'[calls[c].apiKey].cooldownUntil = rotNow + 60000
               /\ keyStates'[calls[c].apiKey].failures =
                    keyStates[calls[c].apiKey].failures + 1
               /\ \A k \in DOMAIN keyStates :
                    k # calls[c].apiKey => keyStates'[k] = keyStates[k]
        /\ \A k \in DOMAIN keyStates :
             /\ keyStates'[k].failures >= keyStates[k].failures
             /\ keyStates[k].isDisabled => keyStates'[k].isDisabled
        /\ \A c \in 1..MaxCalls :
             Selects(c) => ~keyStates'[calls'[c].apiKey].isDisabled]_vars
\* a key has been disabled by its fifth 429, and a call made since has ended
\* with 503
C35_Witness ==
  /\ \E k \in DOMAIN keyStates :
       keyStates[k].isDisabled /\ keyStates[k].failures = MAX_FAILURES_PER_KEY
  /\ \A k \in DOMAIN keyStates : keyStates[k].isDisabled
  /\ \E c \in 1..MaxCalls : calls[c].pc = "done" /\ calls[c].result = Failure(503)

\* call c is in its loop
Running(c) == calls[c].pc \in {"fetching", "sleeping"}
\* call c returns in this step
Returns(c) == calls[c].pc # "done" /\ calls'[c].pc = "done"

\* the limit of attempts: min(6, 2 x number of keys) in the first version, 10
\* in the second
ClaimedLimit == IF rotVariant = 1 THEN Min(6, 2 * Len(apiKeys)) ELSE 10
\* C36: the calls that are made all return (in the end none is in its
\* loop); the attempts of a call never exceed the limit of its version,
\* every request it sends is one more attempt, and a call at the limit sends
\* no other; a return is a success, a 4xx or a 503; it is a 503 when it ends
\* a sleep, and a 503 is returned only at the limit of attempts or, in the
\* second version, when no key is usable and every key is disabled or the
\* attempt was the last.
C36_Terminates ==
  /\ <>[](\A c \in 1..MaxCalls : ~Running(c))
  /\ [](\A c \in 1..MaxCalls :
          /\ calls[c].attempts <= ClaimedLimit
          /\ Running(c) => calls[c].attempts >= 1)
  /\ [][\A c \in 1..MaxCalls :
          /\ Selects(c) => calls'[c].attempts = calls[c].attempts + 1
          /\ calls[c].attempts = ClaimedLimit' =>
               calls'[c].pc # "fetching" \/ calls'[c] = calls[c]
          /\ Returns(c) =>
               /\ calls'[c].result \in {Success(text) : text \in Texts}
                                       \cup {Failure(400), Failure(503)}
               /\ calls[c].pc = "sleeping" => calls'[c].result = Failure(503)
               /\ calls'[c].result.status = 503 =>
                    \/ calls[c].attempts = ClaimedLimit'
                    \/ /\ rotVariant = 2
                       /\ \A k \in DOMAIN keyStates' :
                            Unavailable(keyStates'[k], rotNow')
                       /\ \/ Len(apiKeys') > 0 /\ \A k \in DOMAIN keyStates' :
                                                    keyStates'[k].isDisabled
                          \/ calls[c].attempts + 1 = MAX_RETRIES]_vars
\* a call of the first version has used its four attempts on two keys and
\* has returned 503
C36_Witness ==
  /\ rotVariant = 1
  /\ Len(apiKeys) = 2
  /\ \E c \in 1..MaxCalls :
       /\ calls[c].pc = "done"
       /\ calls[c].result = Failure(503)
  /\ \E c \in 1..MaxCalls : calls[c].pc = "fetching" /\ calls[c].attempts = 4

InCache(prompt) == \E e \in cache : e.key = prompt /\ rotNow <= e.until
\* what the cache holds for the prompt
Cached(entries, prompt) == {e.data : e \in {f \in entries : f.key = prompt}}

\* C38: the cache changes only when a call returns a success, and then the
\* prompt of that call holds the returned data, or (second version) when a
\* hit renews an entry, whose data stays; a call whose prompt is in the
\* cache returns the cached data in its first step, is given no key and sends
\* no request, and leaves currentKeyIndex, the keys and the key states as
\* they are.
C38_ResponseCache ==
  [][/\ cache' # cache =>
          \E c \in 1..MaxCalls :
            /\ Returns(c)
            /\ calls'[c].result.success
            /\ Cached(cache', calls'[c].prompt) = {calls'[c].result.data}
            /\ \A prompt \in Prompts \ {calls'[c].prompt} : Cached(cache', prompt) = Cached(cache, prompt)
     /\ \A c \in 1..MaxCalls, prompt \in Prompts :
          (Generate(c, prompt) /\ InCache(prompt)) =>
            /\ calls'[c].pc = "done"
            /\ calls'[c].result.success
            /\ {calls'[c].result.data} = Cached(cache, prompt)
            /\ Cached(cache', prompt) = Cached(cache, prompt)
            /\ calls'[c].apiKey = NoKey
            /\ currentKeyIndex' = currentKeyIndex
            /\ apiKeys' = apiKeys
            /\ keyStates' = keyStates]_vars
\* with the one key cooling down since its 429 and no time gone by, both calls
\* have returned a success: one of them from the cache
C38_Witness ==
  /\ rotVariant = 1
  /\ Len(apiKeys) = 1
  /\ rotNow = 0
  /\ keyStates[1].failures = 1
  /\ currentKeyIndex = 0
  /\ \A c \in 1..MaxCalls : calls[c].pc = "done" /\ calls[c].result = Success("A")

====
